---- MODULE Spec2Model ----
(***************************************************************************)
(* Model of the replication bridge server (advancedReport_server):         *)
(* the license/tenant service, and the per-connection session controller   *)
(* with its event handlers.                                                *)
(***************************************************************************)
EXTENDS Integers, Sequences, FiniteSets, TLC

\* ---------------------------------------------------------------- bounds
\* Wall-clock instants the model distinguishes: 0..MaxTime.
MaxTime == 1

\* Suspended handlers one connection may have at a time.
MaxInFlight == 1

\* ------------------------------------------------------------- constants
\* Length of one day in clock units (1000*60*60*24 ms in the source).
DayLen == 2

Undef == "undefined"
Null == "null"
ADVANCED == "advanced_online_report"

\* Values: the number 0 and the empty string; every other value of a
\* payload field or a column is a non-empty string.
Zero == "0"
Empty == ""

\* Rows of the tenant table `stores` (StoreId is its primary key).
stores ==
  { [StoreId |-> "s1", StoreName |-> "n1", AdvancedReportAppId |-> "A",
     AdvancedReportLicenseExpire |-> 1],
    [StoreId |-> "s2", StoreName |-> "n2", AdvancedReportAppId |-> "B",
     AdvancedReportLicenseExpire |-> 3] }

\* Values a peer can put in the storeId / appId fields of a call.
StoreIds == {"s1", "s2"}
AppIds == {"A", "B"}

VARIABLES
  phase,           \* "constructed" | "listening" | "closing"
  connectionPool,  \* LicenseService.connectionPool: Null or "pool"
  now,             \* wall clock
  licenseCall,     \* the last call made on the license service, with its result
  sock,            \* per connection: transport state and the fields set on the socket
  tasks,           \* per connection: the suspended async handlers, in arrival order
  timers,          \* per connection: the pending setTimeout callbacks
  clientFullSyncStatus, \* the connections that have an entry in the map
  processingQueue, \* SyncService.processingQueue: the SyncIds being processed
  tables,          \* the databases of the target store in which the synced table exists
  uploads,         \* the files present in the uploads directory
  step,            \* what the last handler step did (event, payload, emits, statements)
  rowTable,        \* the table of the target store the row operations go to
  rowStore,        \* the rows of that table
  rowOps,          \* the row operations in flight, in receive order
  rowLog,          \* what happened to the row operations, in order
  ddlCall,         \* the last call of the DDL translator, with its result
  upSess,          \* per upload session: transport state and tenant fields
  csvChunkStorage, \* per upload session: the Map from chunkKey to an accumulator
  accs,            \* the uploadInfo objects created so far, in creation order
  upTasks,         \* per upload session: suspended chunk handlers and import timers
  disk,            \* the uploads directory: file name -> bytes
  upStep,          \* what the last step of an upload handler did
  chunkMessages,   \* the csv_bulk_upload_chunk events received so far
  arg,             \* the input of a function applied on its own
  ret,             \* its result
  proc,            \* the process: "running" | "closing" | "drained" | "exit0" | "exit1"
  pools,           \* DatabaseManager.pools: database -> pool object
  poolObjs,        \* the pool objects mysql.createPool has made, in creation order
  poolCalls,       \* the getPool calls suspended in pool.getConnection
  handed,          \* the (database, pool) pairs getPool has returned
  syncCalls,       \* the processSyncData calls suspended in their operation
  syncRet,         \* what the last processSyncData call did
  job,             \* the force_sync_request or clear_database_tables handler in flight
  dbTables         \* the tables that exist in the tenant database

licenseVars == <<phase, connectionPool, now, licenseCall>>
sessionVars == <<sock, tasks, timers, clientFullSyncStatus, processingQueue,
                 tables, uploads, step>>
dispatchVars == <<rowTable, rowStore, rowOps, rowLog, ddlCall>>
uploadVars == <<upSess, csvChunkStorage, accs, upTasks, disk, upStep, chunkMessages>>
callVars == <<arg, ret>>
hostVars == <<proc, pools, poolObjs, poolCalls, handed, syncCalls, syncRet, job, dbTables>>
vars == <<licenseVars, sessionVars, dispatchVars, uploadVars, callVars, hostVars>>

\* The connections the model follows.
Sockets == {"k1"}

\* A socket object before io.on('connection') has run for it.
NewSocket ==
  [state |-> "none", storeId |-> Undef, appId |-> Undef, serviceType |-> Undef,
   licenseInfo |-> Undef]

\* Databases of the target store in which the synced table exists at start.
InitialTables == {"B"}

\* ------------------------------------------------------- license service

\* SELECT ... FROM stores WHERE StoreId = ? AND AdvancedReportAppId = ?
SelectStore(storeId, appId) ==
  { r \in stores : r.StoreId = storeId /\ r.AdvancedReportAppId = appId }

\* A comparison that lets a license run through its expiry instant.
isExpired_strict(expireDate, currentDate) == expireDate < currentDate

\* const isExpired = expireDate <= currentDate
isExpired(expireDate, currentDate) == expireDate <= currentDate

\* Math.ceil((expireDate - currentDate) / one day)
daysRemaining(expireDate, currentDate) ==
  (expireDate - currentDate + DayLen - 1) \div DayLen

\* The result every failure path of validateAdvancedReportLicense returns.
LicenseFailure(msg) ==
  [isValid |-> FALSE, isExpired |-> TRUE, error |-> msg, storeInfo |-> Undef]

\* validateAdvancedReportLicense(storeId, appId), called with the pool in
\* state `pool` at time t; initOk / execOk say whether the lazy
\* initialisation and the query succeed.
validateAdvancedReportLicense(pool, initOk, execOk, storeId, appId, t) ==
  IF pool = Null /\ ~initOk THEN LicenseFailure("Database connection failed")
  ELSE IF ~execOk THEN LicenseFailure("query failed")
  ELSE LET rows == SelectStore(storeId, appId) IN
    IF rows = {} THEN LicenseFailure("Store not found or invalid AppId")
    ELSE LET store == CHOOSE r \in rows : TRUE
             expired == isExpired(store.AdvancedReportLicenseExpire, t)
         IN [isValid |-> ~expired,
             isExpired |-> expired,
             error |-> Undef,
             storeInfo |->
               [storeId |-> store.StoreId,
                storeName |-> store.StoreName,
                appId |-> store.AdvancedReportAppId,
                expireDate |-> store.AdvancedReportLicenseExpire,
                daysRemaining |->
                  IF expired THEN 0
                  ELSE daysRemaining(store.AdvancedReportLicenseExpire, t)]]

\* initialize(): the pool object is assigned before the connection test, so
\* it stays assigned whether or not the test succeeds.
initialize(pool) == IF pool = Null THEN "pool" ELSE pool

\* getDatabaseByStoreAndApp(storeId, appId): no lazy initialisation; every
\* failure (no pool, query error) is caught and reported as null.
getDatabaseByStoreAndApp(pool, execOk, storeId, appId) ==
  IF pool = Null THEN Null
  ELSE IF ~execOk THEN Null
  ELSE IF SelectStore(storeId, appId) # {} THEN appId
  ELSE Null

\* close(): the pool is dropped only when pool.end() succeeds.
close(pool, endOk) == IF pool # Null /\ endOk THEN Null ELSE pool

NoCall == [op |-> "none"]

\* No handler step has been taken (or the last step was not a handler step).
NoStep == [ev |-> "none"]

\* server.listen callback: initialises the license service.
Listen ==
  /\ phase = "constructed"
  /\ phase' = "listening"
  /\ connectionPool' = initialize(connectionPool)
  /\ UNCHANGED <<now, licenseCall>>
  /\ UNCHANGED sessionVars
  /\ UNCHANGED dispatchVars
  /\ UNCHANGED <<uploadVars, callVars, hostVars>>

\* SIGTERM / SIGINT handler, as far as the license service is concerned.
Shutdown ==
  /\ phase = "listening"
  /\ phase' = "closing"
  /\ \E endOk \in BOOLEAN : connectionPool' = close(connectionPool, endOk)
  /\ UNCHANGED <<now, licenseCall>>
  /\ UNCHANGED sessionVars
  /\ UNCHANGED dispatchVars
  /\ UNCHANGED <<uploadVars, callVars, hostVars>>

\* Passage of wall-clock time.
Tick ==
  /\ now < MaxTime
  /\ now' = now + 1
  /\ UNCHANGED <<phase, connectionPool, licenseCall>>
  /\ UNCHANGED <<sock, tasks, timers, clientFullSyncStatus, processingQueue,
                 tables, uploads>>
  /\ step' = NoStep
  /\ UNCHANGED dispatchVars
  /\ UNCHANGED <<uploadVars, callVars, hostVars>>

\* A caller (a handler still running) invokes validateAdvancedReportLicense.
CallValidate ==
  /\ phase \in {"listening", "closing"}
  /\ \E storeId \in StoreIds, appId \in AppIds, initOk \in BOOLEAN, execOk \in BOOLEAN :
       /\ licenseCall' =
            [op |-> "validate", storeId |-> storeId, appId |-> appId,
             pool |-> connectionPool, at |-> now,
             lookupOk |-> (connectionPool # Null \/ initOk) /\ execOk,
             result |-> validateAdvancedReportLicense(connectionPool, initOk,
                                                      execOk, storeId, appId, now)]
       /\ connectionPool' = initialize(connectionPool)
  /\ UNCHANGED <<phase, now>>
  /\ UNCHANGED sessionVars
  /\ UNCHANGED dispatchVars
  /\ UNCHANGED <<uploadVars, callVars, hostVars>>

\* A caller invokes getDatabaseByStoreAndApp.
CallDatabaseFor ==
  /\ phase \in {"listening", "closing"}
  /\ \E storeId \in StoreIds, appId \in AppIds, execOk \in BOOLEAN :
       licenseCall' =
         [op |-> "databaseFor", storeId |-> storeId, appId |-> appId,
          pool |-> connectionPool, at |-> now,
          lookupOk |-> connectionPool # Null /\ execOk,
          result |-> getDatabaseByStoreAndApp(connectionPool, execOk, storeId, appId)]
  /\ UNCHANGED <<phase, connectionPool, now>>
  /\ UNCHANGED sessionVars
  /\ UNCHANGED dispatchVars
  /\ UNCHANGED <<uploadVars, callVars, hostVars>>


\* ---------------------------------------------------- session controller

\* JavaScript truthiness of a payload field (absent fields are undefined).
Truthy(v) == v # Undef

\* The guard `!socket.storeId || !socket.appId` of the gated handlers, negated.
Identified(k) == Truthy(k.storeId) /\ Truthy(k.appId)

\* An event payload: every field a handler of the model reads; a field the
\* peer did not send is undefined; nil says that no payload was sent at all.
NoFields ==
  [nil |-> FALSE, storeId |-> Undef, appId |-> Undef, serviceType |-> Undef,
   syncId |-> Undef, SyncId |-> Undef, MachineName |-> Undef,
   operation |-> Undef, recordData |-> Undef, sqlCommand |-> Undef,
   fileName |-> Undef, fileContent |-> Undef, schema |-> Undef,
   originalSyncId |-> Undef, isLastBatch |-> FALSE]

NilPayload == [NoFields EXCEPT !.nil = TRUE]

\* (storeId, appId) pairs a peer sends: the two tenants and a pair that is
\* in no row of the tenant table.
Pairs == {<<"s1", "A">>, <<"s2", "B">>, <<"s1", "B">>}

\* An event emitted to the peer.
Emit(ev, code, syncId, success) ==
  [ev |-> ev, code |-> code, syncId |-> syncId, success |-> success,
   skipped |-> FALSE]

\* One step of a handler of connection s for event ev with payload d:
\* the events it emitted, the databases it executed a statement against,
\* the files it wrote, whether it called socket.disconnect, whether it
\* assigned the tenant fields, whether the handler returned, and whether the
\* session was identified when the event was received.
Step(s, ev, d, emits, stmts, files, disc, bound, done, idAtRecv) ==
  [sock |-> s, ev |-> ev, data |-> d, emits |-> emits, stmts |-> stmts,
   files |-> files, disconnected |-> disc, bound |-> bound, done |-> done,
   idAtRecv |-> idAtRecv, at |-> now, wasOpen |-> sock[s].state = "open"]

\* A suspended handler: the event, where it is suspended, its payload, the
\* database it resolved, whether the session was identified on receipt, and
\* the (storeId, appId) arguments of a call it is suspended in.
Task(ev, pc, d, db, idAtRecv) ==
  [ev |-> ev, pc |-> pc, data |-> d, db |-> db, idAtRecv |-> idAtRecv,
   who |-> <<Undef, Undef>>]

RemoveAt(q, i) == SubSeq(q, 1, i - 1) \o SubSeq(q, i + 1, Len(q))

\* socket.disconnect(true): closes the transport and runs the 'disconnect'
\* handler, which removes the connection from clientFullSyncStatus.
Disconnected(k) == [k EXCEPT !.state = "closed"]

\* io.on('connection'): a peer connects.
Connect(s) ==
  /\ phase = "listening"
  /\ sock[s].state = "none"
  /\ sock' = [sock EXCEPT ![s].state = "open"]
  /\ step' = NoStep
  /\ UNCHANGED <<tasks, timers, clientFullSyncStatus, processingQueue, tables, uploads>>
  /\ UNCHANGED licenseVars
  /\ UNCHANGED dispatchVars
  /\ UNCHANGED <<uploadVars, callVars, hostVars>>

\* The peer closes the connection: socket.on('disconnect').
ClientDisconnect(s) ==
  /\ sock[s].state = "open"
  /\ sock' = [sock EXCEPT ![s] = Disconnected(@)]
  /\ clientFullSyncStatus' = clientFullSyncStatus \ {s}
  /\ step' = NoStep
  /\ UNCHANGED <<tasks, timers, processingQueue, tables, uploads>>
  /\ UNCHANGED licenseVars
  /\ UNCHANGED dispatchVars
  /\ UNCHANGED <<uploadVars, callVars, hostVars>>

\* Payloads of identify.
IdentifyPayloads ==
  {NilPayload} \cup
  { [NoFields EXCEPT !.storeId = p[1], !.appId = p[2], !.serviceType = sv] :
      p \in Pairs \cup {<<Undef, "A">>, <<"s1", Undef>>},
      sv \in {ADVANCED, "legacy", Undef} }

\* `socket.storeId = storeId; socket.appId = appId; socket.serviceType = ...`
Bind(k, d) ==
  [k EXCEPT !.storeId = d.storeId, !.appId = d.appId, !.serviceType = d.serviceType]

\* socket.on('identify'), up to its first suspension.
IdentifyRecv(s, d) ==
  /\ sock[s].state = "open"
  /\ LET id == Identified(sock[s]) IN
     IF d.nil THEN
       \* destructuring an absent payload throws: the catch block
       /\ sock' = [sock EXCEPT ![s] = Disconnected(@)]
       /\ clientFullSyncStatus' = clientFullSyncStatus \ {s}
       /\ step' = Step(s, "identify", d, <<Emit("identification_error", 0, Undef, "false")>>,
                       {}, {}, TRUE, FALSE, TRUE, id)
       /\ UNCHANGED tasks
     ELSE IF d.serviceType = ADVANCED /\ (~Truthy(d.storeId) \/ ~Truthy(d.appId)) THEN
       /\ sock' = [sock EXCEPT ![s] = Disconnected(@)]
       /\ clientFullSyncStatus' = clientFullSyncStatus \ {s}
       /\ step' = Step(s, "identify", d, <<Emit("license_error", 400, Undef, "false")>>,
                       {}, {}, TRUE, FALSE, TRUE, id)
       /\ UNCHANGED tasks
     ELSE IF d.serviceType = ADVANCED THEN
       /\ Len(tasks[s]) < MaxInFlight
       /\ tasks' = [tasks EXCEPT ![s] = Append(@, Task("identify", "validate", d, Null, id))]
       /\ step' = Step(s, "identify", d, <<>>, {}, {}, FALSE, FALSE, FALSE, id)
       /\ UNCHANGED <<sock, clientFullSyncStatus>>
     ELSE
       /\ sock' = [sock EXCEPT ![s] = Bind(@, d)]
       /\ clientFullSyncStatus' = clientFullSyncStatus \cup {s}
       /\ step' = Step(s, "identify", d, <<Emit("identified", 0, Undef, "true")>>,
                       {}, {}, FALSE, TRUE, TRUE, id)
       /\ UNCHANGED tasks
  /\ UNCHANGED <<timers, processingQueue, tables, uploads>>
  /\ UNCHANGED licenseVars
  /\ UNCHANGED dispatchVars
  /\ UNCHANGED <<uploadVars, callVars, hostVars>>

\* A license gate that forgets to schedule the disconnect.
ScheduleDisconnect_none(ts) == ts

\* setTimeout(() => socket.disconnect(true), 1000)
ScheduleDisconnect(ts) == ts \cup {"disconnect"}

\* socket.on('identify'), resumed when validateAdvancedReportLicense returns.
IdentifyResume(s, i) ==
  /\ i \in 1..Len(tasks[s])
  /\ tasks[s][i].ev = "identify"
  /\ LET t == tasks[s][i]
         d == t.data
     IN \E initOk \in BOOLEAN, execOk \in BOOLEAN :
        LET licenseValidation ==
              validateAdvancedReportLicense(connectionPool, initOk, execOk,
                                            d.storeId, d.appId, now)
        IN /\ connectionPool' = initialize(connectionPool)
           /\ tasks' = [tasks EXCEPT ![s] = RemoveAt(@, i)]
           /\ IF ~licenseValidation.isValid \/ licenseValidation.isExpired THEN
                /\ timers' = [timers EXCEPT ![s] = ScheduleDisconnect(@)]
                /\ step' = Step(s, "identify", d,
                                <<Emit("license_expired", 410, Undef, "false")>>,
                                {}, {}, FALSE, FALSE, TRUE, t.idAtRecv)
                /\ UNCHANGED <<sock, clientFullSyncStatus>>
              ELSE
                /\ sock' = [sock EXCEPT ![s] =
                              [Bind(@, d) EXCEPT !.licenseInfo = licenseValidation.storeInfo]]
                /\ clientFullSyncStatus' = clientFullSyncStatus \cup {s}
                /\ timers' = timers
                /\ step' = Step(s, "identify", d,
                                <<Emit("identified", 0, Undef, "true")>>,
                                {}, {}, FALSE, TRUE, TRUE, t.idAtRecv)
  /\ UNCHANGED <<processingQueue, tables, uploads>>
  /\ UNCHANGED <<phase, now, licenseCall>>
  /\ UNCHANGED dispatchVars
  /\ UNCHANGED <<uploadVars, callVars, hostVars>>

\* The setTimeout callback of the license gate: socket.disconnect(true).
TimerFire(s) ==
  /\ "disconnect" \in timers[s]
  /\ timers' = [timers EXCEPT ![s] = @ \ {"disconnect"}]
  /\ sock' = [sock EXCEPT ![s] = Disconnected(@)]
  /\ clientFullSyncStatus' = clientFullSyncStatus \ {s}
  /\ step' = Step(s, "timer", NoFields, <<>>, {}, {}, TRUE, FALSE, TRUE, FALSE)
  /\ UNCHANGED <<tasks, processingQueue, tables, uploads>>
  /\ UNCHANGED licenseVars
  /\ UNCHANGED dispatchVars
  /\ UNCHANGED <<uploadVars, callVars, hostVars>>

\* socket.on('ping')
Ping(s) ==
  /\ sock[s].state = "open"
  /\ step' = Step(s, "ping", NoFields, <<Emit("pong", 0, Undef, Undef)>>,
                  {}, {}, FALSE, FALSE, TRUE, Identified(sock[s]))
  /\ UNCHANGED <<sock, tasks, timers, clientFullSyncStatus, processingQueue, tables, uploads>>
  /\ UNCHANGED licenseVars
  /\ UNCHANGED dispatchVars
  /\ UNCHANGED <<uploadVars, callVars, hostVars>>


\* ------------------------------------------------------------ sync events

\* Sync identifiers peers use.
SyncIds == {"x", "y"}

\* dbConfig.machineMapping: machine name -> { database }.
machineMapping == ("m1" :> "A") @@ ("m2" :> "B")

\* getDatabaseByMachine(MachineName); Null stands for the thrown
\* `App ID ... not found in configuration`.
getDatabaseByMachine(m) ==
  IF m \in DOMAIN machineMapping THEN machineMapping[m] ELSE Null

\* syncDataSchema.validate: the legacy shape requires MachineName and SyncId
\* and allows no key outside the schema.
validateSyncData(d) ==
  /\ ~d.nil
  /\ Truthy(d.MachineName)
  /\ Truthy(d.SyncId)
  /\ ~Truthy(d.appId) /\ ~Truthy(d.storeId) /\ ~Truthy(d.syncId)

\* executeAdvancedSyncOperation reaches dbManager.executeQuery: the payload
\* carries the key columns the operation needs (an INSERT needs none).
HasRequiredKeys(d) == d.operation = "INSERT" \/ d.recordData = "row"

\* ---- the DDL translator

\* Source-dialect commands peers send in sqlCommand, and a value that is not
\* a string.
AddNote == "ALTER TABLE [dbo].[Sales] Add [Note] [NVARCHAR](50) NULL"
AddFlag == "ALTER TABLE [dbo].[Sales] Add [Flag] BIT"
DropNote == "ALTER TABLE [dbo].[Sales] DROP COLUMN [Note]"
LockEscalation == "ALTER TABLE [dbo].[Sales] SET (LOCK_ESCALATION = TABLE)"
DropSales == "DROP TABLE [dbo].[Sales]"
NotAString == "5 (a number)"

\* The pieces of a command: plain words, the schema prefix [dbo]., bracketed
\* identifiers [v], backtick-quoted identifiers, and types with a length,
\* bracketed ([V](n)) or not (V(n)).
Word(v) == [k |-> "word", v |-> v, n |-> 0]
SchemaPrefix == [k |-> "schema", v |-> "dbo", n |-> 0]
Bracket(v) == [k |-> "bracket", v |-> v, n |-> 0]
Backtick(v) == [k |-> "backtick", v |-> v, n |-> 0]
BracketType(v, n) == [k |-> "brackettype", v |-> v, n |-> n]
Type(v, n) == [k |-> "type", v |-> v, n |-> n]

\* The text of a command, piece by piece.
Pieces(sqlCommand) ==
  CASE sqlCommand = AddNote ->
         <<Word("ALTER"), Word("TABLE"), SchemaPrefix, Bracket("Sales"),
           Word("Add"), Bracket("Note"), BracketType("NVARCHAR", 50), Word("NULL")>>
    [] sqlCommand = AddFlag ->
         <<Word("ALTER"), Word("TABLE"), SchemaPrefix, Bracket("Sales"),
           Word("Add"), Bracket("Flag"), Word("BIT")>>
    [] sqlCommand = DropNote ->
         <<Word("ALTER"), Word("TABLE"), SchemaPrefix, Bracket("Sales"),
           Word("DROP"), Word("COLUMN"), Bracket("Note")>>
    [] sqlCommand = LockEscalation ->
         <<Word("ALTER"), Word("TABLE"), SchemaPrefix, Bracket("Sales"),
           Word("SET"), Word("(LOCK_ESCALATION"), Word("="), Word("TABLE)")>>
    [] sqlCommand = DropSales ->
         <<Word("DROP"), Word("TABLE"), SchemaPrefix, Bracket("Sales")>>
    [] OTHER -> <<>>

\* toUpperCase on the words of the commands.
Upper(v) == IF v = "Add" THEN "ADD" ELSE v

\* upperSql.includes(...) for one word and for two words in a row.
IncludesWord(q, w) == \E i \in 1..Len(q) : q[i].k = "word" /\ Upper(q[i].v) = w
IncludesWords(q, w1, w2) ==
  \E i \in 1..(Len(q) - 1) :
     /\ q[i].k = "word" /\ Upper(q[i].v) = w1
     /\ q[i + 1].k = "word" /\ Upper(q[i + 1].v) = w2

\* The data-type replacements of lines 25-36 on one piece.
ConvertType(p) ==
  CASE p.k \in {"brackettype", "type"} /\ p.v = "NVARCHAR" -> Type("VARCHAR", p.n)
    [] p.k \in {"word", "bracket"} /\ p.v = "NTEXT" -> [p EXCEPT !.v = "TEXT"]
    [] p.k \in {"word", "bracket"} /\ p.v = "BIT" -> [p EXCEPT !.v = "BOOLEAN"]
    [] p.k \in {"word", "bracket"} /\ p.v = "DATETIME2" -> [p EXCEPT !.v = "DATETIME"]
    [] p.k = "word" /\ p.v = "UNIQUEIDENTIFIER" -> Type("VARCHAR", 36)
    [] p.k = "word" /\ p.v = "GETDATE()" -> Word("NOW()")
    [] p.k = "word" /\ p.v = "NEWID()" -> Word("UUID()")
    [] OTHER -> p

\* .replace(/\[dbo\]\./gi, '')
StripSchema(q) == LET NotSchema(p) == p.k # "schema" IN SelectSeq(q, NotSchema)

\* The chain of replacements that opens the DDL_ALTER_TABLE branch.
ConvertTypes(q) == LET s == StripSchema(q) IN [i \in 1..Len(s) |-> ConvertType(s[i])]

\* .replace(/\[([^\]]+)\]/g, '`$1`')
QuoteIdentifiers(q) ==
  [i \in 1..Len(q) |->
     IF q[i].k = "bracket" THEN Backtick(q[i].v)
     ELSE IF q[i].k = "brackettype" THEN [q[i] EXCEPT !.k = "backticktype"]
     ELSE q[i]]

Nullness(p) == p.k = "word" /\ p.v \in {"NULL", "NOT NULL"}
\* A word made of letters only.
Letters(p) ==
  p.k = "word" /\ p.v \notin {"=", "(LOCK_ESCALATION", "TABLE)", "GETDATE()", "NEWID()",
                              "NOW()", "UUID()"}
Charset == Word("CHARACTER SET utf8mb4 COLLATE utf8mb4_0900_ai_ci")

\* Whether ADD-column pattern number `pat` matches at the head of q, and how
\* many pieces it takes: Add [col] TYPE(len) NULLNESS, Add [col] TYPE(len),
\* Add [col] TYPE NULLNESS, Add [col] TYPE.
AddPatternLen(pat) == IF pat \in {1, 3} THEN 4 ELSE 3
AddPatternAt(q, pat) ==
  /\ Len(q) >= AddPatternLen(pat)
  /\ q[1].k = "word" /\ Upper(q[1].v) = "ADD"
  /\ q[2].k = "bracket"
  /\ IF pat \in {1, 2} THEN q[3].k = "type" ELSE Letters(q[3])
  /\ pat \in {1, 3} => Nullness(q[4])

\* mysqlDDL.replace(<pattern pat>, 'ADD COLUMN `$1` $2 CHARACTER SET ... $4')
RECURSIVE ReplaceAdd(_, _)
ReplaceAdd(q, pat) ==
  IF q = <<>> THEN <<>>
  ELSE IF AddPatternAt(q, pat)
  THEN <<Word("ADD"), Word("COLUMN"), Backtick(q[2].v), q[3], Charset>>
       \o (IF pat \in {1, 3} THEN <<q[4]>> ELSE <<>>)
       \o ReplaceAdd(SubSeq(q, AddPatternLen(pat) + 1, Len(q)), pat)
  ELSE <<q[1]>> \o ReplaceAdd(Tail(q), pat)

\* The ADD branch: the four patterns in order, the first that changes the
\* command wins, and the command is returned as it is when none does.
ConvertAdd(q) ==
  IF ReplaceAdd(q, 1) # q THEN ReplaceAdd(q, 1)
  ELSE IF ReplaceAdd(q, 2) # q THEN ReplaceAdd(q, 2)
  ELSE IF ReplaceAdd(q, 3) # q THEN ReplaceAdd(q, 3)
  ELSE ReplaceAdd(q, 4)

\* The DROP COLUMN branch: DROP [col] becomes DROP COLUMN `col`, and then
\* whatever follows DROP COLUMN is wrapped in backticks.
RECURSIVE ConvertDrop(_)
ConvertDrop(q) ==
  IF q = <<>> THEN <<>>
  ELSE IF Len(q) >= 2 /\ q[1] = Word("DROP") /\ q[2].k = "bracket"
  THEN <<Word("DROP"), Word("COLUMN"), [q[2] EXCEPT !.k = "backtick-backtick"]>>
       \o ConvertDrop(SubSeq(q, 3, Len(q)))
  ELSE IF Len(q) >= 3 /\ q[1] = Word("DROP") /\ q[2] = Word("COLUMN")
  THEN <<Word("DROP"), Word("COLUMN"),
         [q[3] EXCEPT !.k = IF q[3].k = "word" THEN "backtick" ELSE "backtick-bracket"]>>
       \o ConvertDrop(SubSeq(q, 4, Len(q)))
  ELSE <<q[1]>> \o ConvertDrop(Tail(q))

\* ALTER COLUMN -> MODIFY COLUMN
RECURSIVE ConvertModify(_)
ConvertModify(q) ==
  IF q = <<>> THEN <<>>
  ELSE IF Len(q) >= 2 /\ q[1] = Word("ALTER") /\ q[2] = Word("COLUMN")
  THEN <<Word("MODIFY"), Word("COLUMN")>> \o ConvertModify(SubSeq(q, 3, Len(q)))
  ELSE <<q[1]>> \o ConvertModify(Tail(q))

\* The translated command, or null.
Translated(q) == [isNull |-> FALSE, sql |-> q]
NullDDL == [isNull |-> TRUE, sql |-> <<>>]

\* typeof sqlCommand === 'string'
IsString(v) == v \notin {Undef, NotAString}

\* A translator without the LOCK_ESCALATION branch.
LockEscalationSkip_never(q) == FALSE

\* upperSql.includes('SET (LOCK_ESCALATION') || upperSql.includes('SET (LOCK ESCALATION')
LockEscalationSkip(q) ==
  IncludesWords(q, "SET", "(LOCK_ESCALATION") \/ IncludesWords(q, "SET", "(LOCK")

\* convertSqlServerDDLToMySQL(sqlCommand, tableName, operation)
convertSqlServerDDLToMySQL(sqlCommand, operation) ==
  IF sqlCommand = Empty \/ ~IsString(sqlCommand) THEN NullDDL
  ELSE LET q == Pieces(sqlCommand)
           mysqlDDL == ConvertTypes(q)
       IN IF operation = "DDL_ALTER_TABLE" THEN
            IF IncludesWords(q, "ADD", "COLUMN") \/ IncludesWord(q, "ADD")
            THEN Translated(ConvertAdd(mysqlDDL))
            ELSE IF IncludesWords(q, "DROP", "COLUMN")
            THEN Translated(ConvertDrop(mysqlDDL))
            ELSE IF IncludesWord(q, "MODIFY") \/ IncludesWords(q, "ALTER", "COLUMN")
            THEN Translated(ConvertModify(mysqlDDL))
            ELSE IF LockEscalationSkip(q) THEN NullDDL
            ELSE Translated(mysqlDDL)
          ELSE Translated(QuoteIdentifiers(StripSchema(q)))

\* `!mysqlDDL`: null, or the empty string.
NoDDL(r) == r.isNull \/ r.sql = <<>>

NoDdlCall == [op |-> "none"]

\* The handler at position i of connection s returns, having emitted `emits`
\* and executed statements against `stmts`.
Finish(s, i, emits, stmts) ==
  /\ tasks' = [tasks EXCEPT ![s] = RemoveAt(@, i)]
  /\ step' = Step(s, tasks[s][i].ev, tasks[s][i].data, emits, stmts, {},
                  FALSE, FALSE, TRUE, tasks[s][i].idAtRecv)

\* The handler at position i suspends again at pc, having resolved db.
Continue(s, i, pc, db, emits, files) ==
  /\ tasks' = [tasks EXCEPT ![s][i] = [@ EXCEPT !.pc = pc, !.db = db]]
  /\ step' = Step(s, tasks[s][i].ev, tasks[s][i].data, emits, {}, files,
                  FALSE, FALSE, FALSE, tasks[s][i].idAtRecv)

\* The handler of event ev suspends for the first time.
Suspend(s, ev, pc, d, db) ==
  /\ Len(tasks[s]) < MaxInFlight
  /\ tasks' = [tasks EXCEPT ![s] =
                 Append(@, [Task(ev, pc, d, db, Identified(sock[s]))
                              EXCEPT !.who = <<sock[s].storeId, sock[s].appId>>])]
  /\ step' = Step(s, ev, d, <<>>, {}, {}, FALSE, FALSE, FALSE, Identified(sock[s]))

\* The handler of event ev returns without suspending.
Reply(s, ev, d, emits) ==
  /\ step' = Step(s, ev, d, emits, {}, {}, FALSE, FALSE, TRUE, Identified(sock[s]))
  /\ UNCHANGED tasks

Bool(b) == IF b THEN "true" ELSE "false"

\* Payloads of sync_data: the advanced shape (appId, storeId, syncId), the
\* legacy shape (MachineName, SyncId), and an advanced payload without storeId.
SyncDataPayloads ==
  { [NoFields EXCEPT !.storeId = p[1], !.appId = p[2], !.syncId = id,
                     !.operation = o[1], !.recordData = o[2]] :
      p \in Pairs, id \in SyncIds, o \in {<<"INSERT", "row">>, <<"UPDATE", "nokey">>} }
  \cup
  { [NoFields EXCEPT !.MachineName = m, !.SyncId = id, !.operation = "INSERT",
                     !.recordData = "row"] :
      m \in {"m1", "m2", "mX"}, id \in SyncIds }
  \cup
  { [NoFields EXCEPT !.appId = "A", !.syncId = "x", !.operation = "INSERT",
                     !.recordData = "row"] }

\* socket.on('sync_data'), up to its first suspension.
SyncDataRecv(s, d) ==
  /\ sock[s].state = "open"
  /\ IF Truthy(d.appId) /\ Truthy(d.storeId) THEN
       \* processAdvancedSyncData: await getDatabaseByStoreAndApp
       /\ Suspend(s, "sync_data", "db", d, Null)
       /\ UNCHANGED processingQueue
     ELSE IF \/ ~validateSyncData(d)
             \/ d.SyncId \in processingQueue
             \/ getDatabaseByMachine(d.MachineName) = Null THEN
       \* processSyncData returns { success: false } without suspending
       /\ Reply(s, "sync_data", d, <<Emit("sync_response", 0, d.SyncId, "false")>>)
       /\ UNCHANGED processingQueue
     ELSE
       /\ Suspend(s, "sync_data", "legacy", d, getDatabaseByMachine(d.MachineName))
       /\ processingQueue' = processingQueue \cup {d.SyncId}
  /\ UNCHANGED <<sock, timers, clientFullSyncStatus, tables, uploads>>
  /\ UNCHANGED licenseVars
  /\ UNCHANGED dispatchVars
  /\ UNCHANGED <<uploadVars, callVars, hostVars>>

\* socket.on('sync_data'), resumed after a database round-trip.
SyncDataResume(s, i) ==
  /\ i \in 1..Len(tasks[s])
  /\ tasks[s][i].ev = "sync_data"
  /\ LET t == tasks[s][i]
         d == t.data
     IN \E execOk \in BOOLEAN :
        CASE t.pc = "db" ->
               LET database == getDatabaseByStoreAndApp(connectionPool, execOk,
                                                        d.storeId, d.appId)
               IN /\ IF database = Null \/ ~HasRequiredKeys(d)
                     THEN Finish(s, i, <<Emit("sync_response", 0, d.syncId, "false")>>, {})
                     ELSE Continue(s, i, "exec", database, <<>>, {})
                  /\ UNCHANGED processingQueue
          [] t.pc = "exec" ->
               /\ Finish(s, i, <<Emit("sync_response", 0, d.syncId, Bool(execOk))>>,
                         IF execOk THEN {t.db} ELSE {})
               /\ UNCHANGED processingQueue
          [] t.pc = "legacy" ->
               /\ processingQueue' = processingQueue \ {d.SyncId}
               /\ IF ~execOk
                  THEN Finish(s, i, <<Emit("sync_response", 0, d.SyncId, "false")>>, {})
                  ELSE IF t.db \notin tables
                  THEN Finish(s, i, <<Emit("request_table_schema", 0, d.SyncId, Undef)>>, {})
                  ELSE Finish(s, i, <<Emit("sync_response", 0, d.SyncId, "true")>>, {t.db})
  /\ UNCHANGED <<sock, timers, clientFullSyncStatus, tables, uploads>>
  /\ UNCHANGED licenseVars
  /\ UNCHANGED dispatchVars
  /\ UNCHANGED <<uploadVars, callVars, hostVars>>

\* Payloads of sync_ddl_operation.
DdlPayloads ==
  { [NoFields EXCEPT !.storeId = p[1], !.appId = p[2], !.syncId = "x",
                     !.operation = "DDL_ALTER_TABLE", !.sqlCommand = c] :
      p \in Pairs, c \in {AddNote, LockEscalation, Undef} }

\* Payloads of sync_ddl_operation for the DDL specification: the commands
\* under their operation tags for a tenant that exists, and one command for a
\* pair that is in no row of the tenant table.
DdlCommandPayloads ==
  { [NoFields EXCEPT !.storeId = "s1", !.appId = "A", !.syncId = "x",
                     !.operation = c[2], !.sqlCommand = c[1]] :
      c \in {<<AddNote, "DDL_ALTER_TABLE">>, <<AddFlag, "DDL_ALTER_TABLE">>,
             <<DropNote, "DDL_ALTER_TABLE">>, <<LockEscalation, "DDL_ALTER_TABLE">>,
             <<DropSales, "DDL_DROP_TABLE">>, <<Undef, "DDL_ALTER_TABLE">>,
             <<Empty, "DDL_ALTER_TABLE">>, <<NotAString, "DDL_ALTER_TABLE">>} }
  \cup
  { [NoFields EXCEPT !.storeId = "s1", !.appId = "B", !.syncId = "y",
                     !.operation = "DDL_ALTER_TABLE", !.sqlCommand = LockEscalation] }

\* socket.on('sync_ddl_operation'), up to its first suspension.
DdlRecv(s, d) ==
  /\ sock[s].state = "open"
  /\ Suspend(s, "sync_ddl_operation", "db", d, Null)
  /\ UNCHANGED <<sock, timers, clientFullSyncStatus, processingQueue, tables, uploads>>
  /\ UNCHANGED licenseVars
  /\ UNCHANGED dispatchVars
  /\ UNCHANGED <<uploadVars, callVars, hostVars>>

\* socket.on('sync_ddl_operation'), resumed after a database round-trip.
DdlResume(s, i) ==
  /\ i \in 1..Len(tasks[s])
  /\ tasks[s][i].ev = "sync_ddl_operation"
  /\ LET t == tasks[s][i]
         d == t.data
     IN \E execOk \in BOOLEAN :
        CASE t.pc = "db" ->
               LET database == getDatabaseByStoreAndApp(connectionPool, execOk,
                                                        d.storeId, d.appId)
                   mysqlDDL == convertSqlServerDDLToMySQL(d.sqlCommand, d.operation)
               IN IF database = Null
                  THEN /\ Finish(s, i, <<Emit("ddl_sync_error", 0, d.syncId, Undef)>>, {})
                       /\ UNCHANGED ddlCall
                  ELSE /\ ddlCall' = [op |-> "convert", sqlCommand |-> d.sqlCommand,
                                      operation |-> d.operation, result |-> mysqlDDL]
                       /\ IF NoDDL(mysqlDDL)
                          THEN Finish(s, i, <<[Emit("ddl_sync_success", 0, d.syncId, Undef)
                                                 EXCEPT !.skipped = TRUE]>>, {})
                          ELSE Continue(s, i, "exec", database, <<>>, {})
          [] t.pc = "exec" ->
               /\ IF execOk
                  THEN Finish(s, i, <<Emit("ddl_sync_success", 0, d.syncId, Undef)>>, {t.db})
                  ELSE Finish(s, i, <<Emit("ddl_sync_error", 0, d.syncId, Undef)>>, {})
               /\ UNCHANGED ddlCall
  /\ UNCHANGED <<sock, timers, clientFullSyncStatus, processingQueue, tables, uploads>>
  /\ UNCHANGED licenseVars
  /\ UNCHANGED <<rowTable, rowStore, rowOps, rowLog>>
  /\ UNCHANGED <<uploadVars, callVars, hostVars>>


\* Payloads of csv_bulk_upload.
CsvPayloads ==
  { [NoFields EXCEPT !.fileName = "f.csv", !.fileContent = c] : c \in {"base64", Undef} }

\* socket.on('csv_bulk_upload'): handleCSVBulkUpload suspends in fs.mkdir.
CsvRecv(s, d) ==
  /\ sock[s].state = "open"
  /\ Suspend(s, "csv_bulk_upload", "write", d, Null)
  /\ UNCHANGED <<sock, timers, clientFullSyncStatus, processingQueue, tables, uploads>>
  /\ UNCHANGED licenseVars
  /\ UNCHANGED dispatchVars
  /\ UNCHANGED <<uploadVars, callVars, hostVars>>

\* socket.on('csv_bulk_upload'), resumed after the file write or after the
\* database lookup of processSingleCSVFile.
CsvResume(s, i) ==
  /\ i \in 1..Len(tasks[s])
  /\ tasks[s][i].ev = "csv_bulk_upload"
  /\ LET t == tasks[s][i]
         d == t.data
     IN \E execOk \in BOOLEAN, importOk \in BOOLEAN :
        CASE t.pc = "write" ->
               IF ~Truthy(d.fileContent) \/ ~execOk
               THEN \* Buffer.from(undefined) or the write throws
                    /\ Finish(s, i, <<Emit("csv_bulk_upload_response", 0, Undef, "false")>>, {})
                    /\ UNCHANGED uploads
               ELSE /\ uploads' = uploads \cup {d.fileName}
                    /\ tasks' = [tasks EXCEPT ![s][i] =
                                   [@ EXCEPT !.pc = "import",
                                             !.who = <<sock[s].storeId, sock[s].appId>>]]
                    /\ step' = Step(s, t.ev, d,
                                    <<Emit("csv_bulk_upload_response", 0, Undef, "true")>>,
                                    {}, {d.fileName}, FALSE, FALSE, FALSE, t.idAtRecv)
          [] t.pc = "import" ->
               LET database == getDatabaseByStoreAndApp(connectionPool, execOk,
                                                        t.who[1], t.who[2])
               IN /\ uploads' = uploads \ {d.fileName}
                  /\ IF database = Null \/ database \notin tables \/ d.fileName \notin uploads
                     THEN Finish(s, i, <<Emit("csv_file_import_complete", 0, Undef, "false")>>, {})
                     ELSE IF ~importOk
                     THEN Finish(s, i, <<Emit("csv_bulk_import_progress", 0, Undef, Undef),
                                         Emit("csv_bulk_import_progress", 0, Undef, Undef),
                                         Emit("csv_file_import_complete", 0, Undef, "false")>>, {})
                     ELSE Finish(s, i, <<Emit("csv_bulk_import_progress", 0, Undef, Undef),
                                         Emit("csv_bulk_import_progress", 0, Undef, Undef),
                                         Emit("csv_bulk_import_progress", 0, Undef, Undef),
                                         Emit("csv_file_import_complete", 0, Undef, "true")>>,
                                 {database})
  /\ UNCHANGED <<sock, timers, clientFullSyncStatus, processingQueue, tables>>
  /\ UNCHANGED licenseVars
  /\ UNCHANGED dispatchVars
  /\ UNCHANGED <<uploadVars, callVars, hostVars>>

\* Payloads of batch_sync: no array at all, or an array of one legacy item.
BatchPayloads ==
  {NilPayload} \cup
  { [NoFields EXCEPT !.MachineName = m, !.SyncId = "x", !.operation = "INSERT",
                     !.recordData = "row"] : m \in {"m1", "m2"} }

\* socket.on('batch_sync'), up to its first suspension.
BatchRecv(s, d) ==
  /\ sock[s].state = "open"
  /\ IF d.nil THEN
       \* iterating a missing array throws: the catch block
       /\ Reply(s, "batch_sync", d, <<Emit("batch_sync_response", 0, Undef, "false")>>)
       /\ UNCHANGED processingQueue
     ELSE IF d.SyncId \in processingQueue THEN
       /\ Reply(s, "batch_sync", d, <<Emit("batch_sync_response", 0, Undef, Undef)>>)
       /\ UNCHANGED processingQueue
     ELSE
       /\ Suspend(s, "batch_sync", "legacy", d, getDatabaseByMachine(d.MachineName))
       /\ processingQueue' = processingQueue \cup {d.SyncId}
  /\ UNCHANGED <<sock, timers, clientFullSyncStatus, tables, uploads>>
  /\ UNCHANGED licenseVars
  /\ UNCHANGED dispatchVars
  /\ UNCHANGED <<uploadVars, callVars, hostVars>>

\* socket.on('batch_sync'), resumed after the database round-trip.
BatchResume(s, i) ==
  /\ i \in 1..Len(tasks[s])
  /\ tasks[s][i].ev = "batch_sync"
  /\ LET t == tasks[s][i]
     IN \E execOk \in BOOLEAN :
          /\ processingQueue' = processingQueue \ {t.data.SyncId}
          /\ IF ~execOk
             THEN Finish(s, i, <<Emit("batch_sync_response", 0, Undef, Undef)>>, {})
             ELSE IF t.db \notin tables
             THEN \* TABLE_NOT_EXISTS is rethrown into the handler's catch
                  Finish(s, i, <<Emit("batch_sync_response", 0, Undef, "false")>>, {})
             ELSE Finish(s, i, <<Emit("batch_sync_response", 0, Undef, Undef)>>, {t.db})
  /\ UNCHANGED <<sock, timers, clientFullSyncStatus, tables, uploads>>
  /\ UNCHANGED licenseVars
  /\ UNCHANGED dispatchVars
  /\ UNCHANGED <<uploadVars, callVars, hostVars>>

\* Payloads of table_schema_response.
SchemaPayloads ==
  { [NoFields EXCEPT !.originalSyncId = id, !.schema = sc] :
      id \in SyncIds, sc \in {"columns", "invalid"} }

\* socket.on('table_schema_response'), up to its first suspension.
SchemaRecv(s, d) ==
  /\ sock[s].state = "open"
  /\ IF ~Identified(sock[s])
     THEN Reply(s, "table_schema_response", d,
                <<Emit("table_schema_error", 0, d.originalSyncId, Undef)>>)
     ELSE Suspend(s, "table_schema_response", "db", d, Null)
  /\ UNCHANGED <<sock, timers, clientFullSyncStatus, processingQueue, tables, uploads>>
  /\ UNCHANGED licenseVars
  /\ UNCHANGED dispatchVars
  /\ UNCHANGED <<uploadVars, callVars, hostVars>>

\* socket.on('table_schema_response'), resumed after a database round-trip.
SchemaResume(s, i) ==
  /\ i \in 1..Len(tasks[s])
  /\ tasks[s][i].ev = "table_schema_response"
  /\ LET t == tasks[s][i]
         d == t.data
     IN \E execOk \in BOOLEAN :
        CASE t.pc = "db" ->
               LET database == getDatabaseByStoreAndApp(connectionPool, execOk,
                                                        t.who[1], t.who[2])
               IN /\ IF database = Null
                     THEN Finish(s, i, <<Emit("table_schema_error", 0, d.originalSyncId, Undef)>>, {})
                     ELSE Continue(s, i, "create", database, <<>>, {})
                  /\ UNCHANGED tables
          [] t.pc = "create" ->
               IF d.schema = "columns" /\ execOk
               THEN /\ tables' = tables \cup {t.db}
                    /\ Finish(s, i, <<Emit("request_full_data_sync", 0, d.originalSyncId, Undef)>>,
                              {t.db})
               ELSE /\ Finish(s, i, <<Emit("table_created", 0, d.originalSyncId, "false")>>, {})
                    /\ UNCHANGED tables
  /\ UNCHANGED <<sock, timers, clientFullSyncStatus, processingQueue, uploads>>
  /\ UNCHANGED licenseVars
  /\ UNCHANGED dispatchVars
  /\ UNCHANGED <<uploadVars, callVars, hostVars>>

\* Payloads of full_data_sync_response: a batch of one row.
FullSyncPayloads ==
  { [NoFields EXCEPT !.originalSyncId = id, !.isLastBatch = b] :
      id \in SyncIds, b \in BOOLEAN }

\* socket.on('full_data_sync_response'), up to its first suspension.
FullSyncRecv(s, d) ==
  /\ sock[s].state = "open"
  /\ IF ~Identified(sock[s])
     THEN Reply(s, "full_data_sync_response", d,
                <<Emit("full_data_sync_error", 0, d.originalSyncId, Undef)>>)
     ELSE Suspend(s, "full_data_sync_response", "db", d, Null)
  /\ UNCHANGED <<sock, timers, clientFullSyncStatus, processingQueue, tables, uploads>>
  /\ UNCHANGED licenseVars
  /\ UNCHANGED dispatchVars
  /\ UNCHANGED <<uploadVars, callVars, hostVars>>

\* socket.on('full_data_sync_response'), resumed after a database round-trip.
FullSyncResume(s, i) ==
  /\ i \in 1..Len(tasks[s])
  /\ tasks[s][i].ev = "full_data_sync_response"
  /\ LET t == tasks[s][i]
         d == t.data
         progress == Emit("full_data_sync_progress", 0, d.originalSyncId, Undef)
     IN \E execOk \in BOOLEAN :
        CASE t.pc = "db" ->
               LET database == getDatabaseByStoreAndApp(connectionPool, execOk,
                                                        t.who[1], t.who[2])
               IN IF database = Null
                  THEN Finish(s, i, <<Emit("full_data_sync_error", 0, d.originalSyncId, Undef)>>, {})
                  ELSE Continue(s, i, "insert", database, <<>>, {})
          [] t.pc = "insert" ->
               Finish(s, i,
                      IF d.isLastBatch
                      THEN <<progress,
                             Emit("full_data_sync_complete", 0, d.originalSyncId, "true"),
                             Emit("sync_response", 0, d.originalSyncId, "true")>>
                      ELSE <<progress>>,
                      IF execOk /\ t.db \in tables THEN {t.db} ELSE {})
  /\ UNCHANGED <<sock, timers, clientFullSyncStatus, processingQueue, tables, uploads>>
  /\ UNCHANGED licenseVars
  /\ UNCHANGED dispatchVars
  /\ UNCHANGED <<uploadVars, callVars, hostVars>>

\* ------------------------------------------------------ row-op dispatcher

\* Row operations one behaviour of the statement specification receives.
MaxStatements == 1

\* Row operations one behaviour of the row specification receives, and how
\* many of them may be suspended at a time.
MaxRowOps == 2
MaxRowsInFlight == 2

\* JavaScript falsiness of a column value.
Falsy(v) == v \in {Undef, Zero, Empty}

\* A payload object: `plain` holds the keys without the old_ prefix, `old`
\* the keys with it (indexed by the column name after the prefix).
Obj(plain, old) == [plain |-> plain, old |-> old]

\* The object without keys.
NoKeys == [c \in {} |-> Undef]

\* `key in object` and `object[key]`.
Has(f, c) == c \in DOMAIN f
Get(f, c) == IF c \in DOMAIN f THEN f[c] ELSE Undef

\* parsedData.old_X || parsedData.X
OldOr(pd, c) == IF ~Falsy(Get(pd.old, c)) THEN pd.old[c] ELSE Get(pd.plain, c)

\* The tags of an XML fragment that parseXMLToObject keeps:
\* `if (tagValue && tagValue !== '') result[tagName] = tagValue`.
KeptTags(tags) == [c \in {k \in DOMAIN tags : tags[k] # Empty} |-> tags[c]]

\* parseXMLToObject(xmlString): with both <new> and <old> the keys of <old>
\* get the old_ prefix; otherwise every tag of the document is a plain key.
parseXMLToObject(x) ==
  IF x.envelope THEN Obj(KeptTags(x.new), KeptTags(x.old))
  ELSE Obj(KeptTags(x.new), NoKeys)

\* The object executeAdvancedSyncOperation works on: recordData as it is, or
\* parsed when it is a string starting with '<' (parseXMLData returns the
\* string unchanged, lines 554-558).
ParsedData(d) == IF d.xml THEN parseXMLToObject(d) ELSE Obj(d.new, d.old)

\* A WHERE predicate under construction; ok = FALSE stands for a thrown Error.
Thrown == [ok |-> FALSE, fields |-> <<>>, values |-> <<>>]
NoWhere == [ok |-> TRUE, fields |-> <<>>, values |-> <<>>]

\* The UPDATE branches: each listed column must be present plain or as old_,
\* and its value is `old_X || X`.
UpdateBy(pd, cols) ==
  IF \E i \in 1..Len(cols) : ~Has(pd.plain, cols[i]) /\ ~Has(pd.old, cols[i])
  THEN Thrown
  ELSE [ok |-> TRUE, fields |-> cols,
        values |-> [i \in 1..Len(cols) |-> OldOr(pd, cols[i])]]

\* The DELETE branches: each listed column must be present plain.
DeleteBy(pd, cols) ==
  IF \E i \in 1..Len(cols) : ~Has(pd.plain, cols[i])
  THEN Thrown
  ELSE [ok |-> TRUE, fields |-> cols,
        values |-> [i \in 1..Len(cols) |-> pd.plain[cols[i]]]]

\* whereFields / whereValues of the UPDATE case (lines 202-340).
updateWhere(tableName, businessType, pd) ==
  CASE tableName = "SalesDetail" ->
         IF businessType = "hospitality" THEN UpdateBy(pd, <<"OrderNo", "ItemCode">>)
         ELSE IF businessType = "retail" THEN UpdateBy(pd, <<"InvoiceNo", "StockId">>)
         ELSE NoWhere
    [] tableName = "Sales" ->
         IF businessType = "hospitality" THEN UpdateBy(pd, <<"OrderNo">>)
         ELSE IF businessType = "retail" THEN UpdateBy(pd, <<"InvoiceNo">>)
         ELSE IF Has(pd.plain, "InvoiceNo") \/ Has(pd.old, "InvoiceNo")
              THEN UpdateBy(pd, <<"InvoiceNo">>)
         ELSE IF Has(pd.plain, "OrderNo") \/ Has(pd.old, "OrderNo")
              THEN UpdateBy(pd, <<"OrderNo">>)
         ELSE Thrown
    [] tableName = "StockItems" ->
         IF businessType = "retail" THEN UpdateBy(pd, <<"StockId">>) ELSE NoWhere
    [] tableName = "MenuItem" ->
         IF businessType = "hospitality" THEN UpdateBy(pd, <<"ItemCode">>) ELSE NoWhere
    [] tableName = "SubMenuLinkDetail" ->
         IF businessType = "hospitality" THEN UpdateBy(pd, <<"ItemCode">>) ELSE NoWhere
    [] tableName = "PaymentReceived" ->
         IF businessType = "hospitality" THEN UpdateBy(pd, <<"OrderNo", "Id">>)
         ELSE IF businessType = "retail" THEN UpdateBy(pd, <<"InvoiceNo", "Id">>)
         ELSE NoWhere
    [] tableName = "Payment" -> UpdateBy(pd, <<"Payment">>)
    [] OTHER ->
         IF ~Falsy(Get(pd.plain, "id")) \/ ~Falsy(Get(pd.old, "id"))
         THEN UpdateBy(pd, <<"id">>)
         ELSE Thrown

\* deleteFields / deleteValues of the DELETE case (lines 371-465).
deleteWhere(tableName, businessType, pd) ==
  CASE tableName = "SalesDetail" ->
         IF businessType = "hospitality" THEN DeleteBy(pd, <<"OrderNo", "ItemCode">>)
         ELSE IF businessType = "retail" THEN DeleteBy(pd, <<"InvoiceNo", "StockId">>)
         ELSE NoWhere
    [] tableName = "Sales" ->
         IF businessType = "hospitality" THEN DeleteBy(pd, <<"OrderNo">>)
         ELSE IF businessType = "retail" THEN DeleteBy(pd, <<"InvoiceNo">>)
         ELSE NoWhere
    [] tableName = "MenuItem" -> DeleteBy(pd, <<"ItemCode">>)
    [] tableName = "StockItems" -> DeleteBy(pd, <<"StockId">>)
    [] tableName = "PaymentReceived" ->
         IF businessType = "hospitality" THEN DeleteBy(pd, <<"OrderNo", "Id">>)
         ELSE IF businessType = "retail" THEN DeleteBy(pd, <<"InvoiceNo", "Id">>)
         ELSE NoWhere
    [] tableName = "Payment" -> DeleteBy(pd, <<"Payment">>)
    [] OTHER -> DeleteBy(pd, <<"id">>)

\* `if (whereFields.length === 0) throw ...` (lines 357-359 and 468-470).
emptyWhereGuard(fields) == Len(fields) = 0

\* What executeAdvancedSyncOperation hands to executeQuery; ok = FALSE stands
\* for an Error thrown before any query. `set` is the column list of an
\* INSERT or the SET list of an UPDATE, `oldKeys` the old_ keys an INSERT
\* lists as columns too.
NoStatement ==
  [ok |-> FALSE, kind |-> "none", set |-> NoKeys, oldKeys |-> {},
   fields |-> <<>>, values |-> <<>>]

executeAdvancedSyncOperation(tableName, operation, pd, businessType) ==
  CASE operation = "INSERT" ->
         [ok |-> TRUE, kind |-> "INSERT", set |-> pd.plain,
          oldKeys |-> DOMAIN pd.old, fields |-> <<>>, values |-> <<>>]
    [] operation = "UPDATE" ->
         LET w == updateWhere(tableName, businessType, pd) IN
         IF ~w.ok \/ DOMAIN pd.plain = {} \/ emptyWhereGuard(w.fields)
         THEN NoStatement
         ELSE [ok |-> TRUE, kind |-> "UPDATE", set |-> pd.plain, oldKeys |-> {},
               fields |-> w.fields, values |-> w.values]
    [] operation = "DELETE" ->
         LET w == deleteWhere(tableName, businessType, pd) IN
         IF ~w.ok \/ emptyWhereGuard(w.fields)
         THEN NoStatement
         ELSE [ok |-> TRUE, kind |-> "DELETE", set |-> NoKeys, oldKeys |-> {},
               fields |-> w.fields, values |-> w.values]
    [] OTHER -> NoStatement

\* The rows a WHERE predicate selects.
Matches(row, fields, values) ==
  \A i \in 1..Len(fields) : Get(row, fields[i]) = values[i]

\* A row after the columns of `set` were assigned.
Merge(set, row) ==
  [c \in DOMAIN set \cup DOMAIN row |-> IF c \in DOMAIN set THEN set[c] ELSE row[c]]

\* No two rows agree on all columns of a unique key.
Unique(store, keys) ==
  \A K \in keys : \A i, j \in 1..Len(store) :
     i # j => \E c \in K : Get(store[i], c) # Get(store[j], c)

\* dbManager.executeQuery(database, sql, parameters) against the table:
\* the result says whether the statement succeeded and gives the rows
\* afterwards. An undefined parameter, an unknown column, a missing key
\* column and a duplicate key make the statement fail; an INSERT that meets
\* a row with the same unique key updates that row (ON DUPLICATE KEY UPDATE).
executeQuery(store, keys, stmt) ==
  LET Failed == [ok |-> FALSE, store |-> store]
      Keep(r) == ~Matches(r, stmt.fields, stmt.values)
      updated == [i \in 1..Len(store) |->
                    IF Matches(store[i], stmt.fields, stmt.values)
                    THEN Merge(stmt.set, store[i]) ELSE store[i]]
      dup == { i \in 1..Len(store) :
                 \E K \in keys : \A c \in K : Get(store[i], c) = Get(stmt.set, c) }
  IN IF \/ \E c \in DOMAIN stmt.set : stmt.set[c] = Undef
        \/ \E i \in 1..Len(stmt.values) : stmt.values[i] = Undef
     THEN Failed
     ELSE CASE stmt.kind = "INSERT" ->
                 IF stmt.oldKeys # {} \/ \E K \in keys : ~(K \subseteq DOMAIN stmt.set)
                 THEN Failed
                 ELSE IF dup # {}
                 THEN LET i == CHOOSE j \in dup : TRUE IN
                      [ok |-> TRUE,
                       store |-> [store EXCEPT ![i] = Merge(stmt.set, @)]]
                 ELSE [ok |-> TRUE, store |-> Append(store, stmt.set)]
            [] stmt.kind = "UPDATE" ->
                 IF Unique(updated, keys) THEN [ok |-> TRUE, store |-> updated]
                 ELSE Failed
            [] stmt.kind = "DELETE" ->
                 [ok |-> TRUE, store |-> SelectSeq(store, Keep)]

\* The PRIMARY KEY the business-type index bundle adds to a table
\* (addHospitalitySpecificIndexes / addRetailSpecificIndexes); the bundles of
\* SalesDetail hold plain indexes only.
bundleKeys(tableName, databaseType) ==
  CASE databaseType = "hospitality" /\ tableName = "MenuItem" -> {{"ItemCode"}}
    [] databaseType = "hospitality" /\ tableName = "Sales" -> {{"OrderNo"}}
    [] databaseType = "retail" /\ tableName = "StockItems" -> {{"StockId"}}
    [] databaseType = "retail" /\ tableName = "Sales" -> {{"InvoiceNo"}}
    [] OTHER -> {}

\* createTableWithSchema: the unique keys of the table it creates. The
\* columns with COLUMN_KEY = 'PRI' become the primary key; the bundle's ADD
\* PRIMARY KEY then fails and is skipped.
createTableWithSchema(tableName, primaryKeyColumns, databaseType) ==
  IF primaryKeyColumns # {} THEN {primaryKeyColumns}
  ELSE bundleKeys(tableName, databaseType)

\* ---- inputs of the row dispatcher

\* The tables with a branch of their own, and "Other" for every other table.
TableNames ==
  {"Sales", "SalesDetail", "StockItems", "MenuItem", "SubMenuLinkDetail",
   "PaymentReceived", "Payment", "Other"}

BusinessTypes == {"retail", "hospitality", Undef}

\* The key columns the branches read, and a column that is in no key.
KeyColumnNames == {"InvoiceNo", "OrderNo", "StockId", "ItemCode", "Id", "Payment", "id"}

Range(q) == { q[i] : i \in DOMAIN q }

\* The column lists by which a peer may key a row of a table: those of the
\* branches of the table, and id.
KeyLists(tableName) ==
  LET full == Obj([c \in KeyColumnNames |-> "1"], NoKeys) IN
  ({<<"id">>}
     \cup { updateWhere(tableName, b, full).fields : b \in BusinessTypes }
     \cup { deleteWhere(tableName, b, full).fields : b \in BusinessTypes })
  \ {<<>>}

\* A row keyed by the columns K with key value v and the value note in Note.
RowOf(K, v, note) == [c \in Range(K) \cup {"Note"} |-> IF c = "Note" THEN note ELSE v]
KeyOnly(K, v) == [c \in Range(K) |-> v]

\* recordData of a sync_data event together with its operation: a JSON
\* object (new = its plain keys, old = its old_ keys) or an XML document
\* (a flat one with the tags `new`, or the envelope <new>..</new><old>..</old>).
RowOp(operation, xml, envelope, new, old) ==
  [operation |-> operation, xml |-> xml, envelope |-> envelope,
   new |-> new, old |-> old]

\* The row operations of the statement specification, for one table.
StatementPayloads(tableName) ==
  UNION { LET K == keyList IN
          {RowOp("INSERT", FALSE, FALSE, RowOf(K, "1", "a"), NoKeys),
           RowOp("DELETE", FALSE, FALSE, RowOf(K, "1", "a"), NoKeys),
           RowOp("MERGE", FALSE, FALSE, RowOf(K, "1", "a"), NoKeys)}
          \cup { RowOp("UPDATE", FALSE, FALSE, RowOf(K, "1", "b"), old) :
                   old \in {NoKeys, KeyOnly(K, Zero), KeyOnly(K, "2")} }
          \cup { RowOp("UPDATE", FALSE, FALSE, [c \in {"Note"} |-> "b"], old) :
                   old \in {NoKeys, KeyOnly(K, "1"), KeyOnly(K, Empty)} }
          \cup { RowOp("UPDATE", TRUE, TRUE, RowOf(K, "1", note), KeyOnly(K, "1")) :
                   note \in {"b", Empty} }
        : keyList \in KeyLists(tableName) }
  \cup {RowOp("DELETE", FALSE, FALSE, [c \in {"Note"} |-> "a"], NoKeys)}

\* The row operations of the row specification: an insert, updates (JSON and
\* XML envelope, the latter clearing Note) and a delete of the one row keyed
\* by the columns K.
RowPayloads(K) ==
  {RowOp("INSERT", FALSE, FALSE, RowOf(K, "1", "a"), NoKeys),
   RowOp("UPDATE", FALSE, FALSE, RowOf(K, "1", "b"), NoKeys),
   RowOp("UPDATE", FALSE, FALSE, RowOf(K, "1", Empty), NoKeys),
   RowOp("UPDATE", TRUE, TRUE, RowOf(K, "1", Empty), KeyOnly(K, "1")),
   RowOp("DELETE", FALSE, FALSE, KeyOnly(K, "1"), NoKeys)}

\* ---- the sync_data handler, one row operation at a time

\* Entries of rowLog: the receipt of row operation number seq, and its
\* sync_response together with the statement that was executed for it.
Received(seq, d) ==
  [what |-> "recv", seq |-> seq, data |-> d, stmt |-> NoStatement, success |-> FALSE]
Responded(seq, d, stmt, success) ==
  [what |-> "resp", seq |-> seq, data |-> d, stmt |-> stmt, success |-> success]

ReceivedCount == Cardinality({ i \in DOMAIN rowLog : rowLog[i].what = "recv" })

\* socket.on('sync_data') with an advanced payload, up to the await of
\* getDatabaseByStoreAndApp in processAdvancedSyncData.
RowRecv(d, maxOps, maxInFlight) ==
  /\ ReceivedCount < maxOps
  /\ Len(rowOps) < maxInFlight
  /\ rowOps' = Append(rowOps, [seq |-> ReceivedCount + 1, data |-> d, pc |-> "db",
                               stmt |-> NoStatement])
  /\ rowLog' = Append(rowLog, Received(ReceivedCount + 1, d))
  /\ UNCHANGED <<rowTable, rowStore, ddlCall>>
  /\ UNCHANGED <<licenseVars, sessionVars>>
  /\ UNCHANGED <<uploadVars, callVars, hostVars>>

\* The handler resumes with the database: executeAdvancedSyncOperation parses
\* the payload and builds the statement; a thrown Error becomes
\* sync_response { success: false }, otherwise the handler awaits executeQuery.
RowLookup(i) ==
  /\ i \in 1..Len(rowOps)
  /\ rowOps[i].pc = "db"
  /\ LET o == rowOps[i]
         database == getDatabaseByStoreAndApp(connectionPool, TRUE, "s1", "A")
         stmt == executeAdvancedSyncOperation(rowTable.tableName, o.data.operation,
                                              ParsedData(o.data), rowTable.businessType)
     IN IF database = Null \/ ~stmt.ok
        THEN /\ rowOps' = RemoveAt(rowOps, i)
             /\ rowLog' = Append(rowLog, Responded(o.seq, o.data, NoStatement, FALSE))
        ELSE /\ rowOps' = [rowOps EXCEPT ![i] = [@ EXCEPT !.pc = "query", !.stmt = stmt]]
             /\ rowLog' = rowLog
  /\ UNCHANGED <<rowTable, rowStore, ddlCall>>
  /\ UNCHANGED <<licenseVars, sessionVars>>
  /\ UNCHANGED <<uploadVars, callVars, hostVars>>

\* The target store executes the statement and the handler emits
\* sync_response with the outcome.
RowExecute(i) ==
  /\ i \in 1..Len(rowOps)
  /\ rowOps[i].pc = "query"
  /\ LET o == rowOps[i]
         r == executeQuery(rowStore, rowTable.keys, o.stmt)
     IN /\ rowStore' = r.store
        /\ rowOps' = RemoveAt(rowOps, i)
        /\ rowLog' = Append(rowLog, Responded(o.seq, o.data, o.stmt, r.ok))
  /\ UNCHANGED <<rowTable, ddlCall>>
  /\ UNCHANGED <<licenseVars, sessionVars>>
  /\ UNCHANGED <<uploadVars, callVars, hostVars>>

\* ------------------------------------------------------- chunked CSV upload

\* csv_bulk_upload_start events and csv_bulk_upload_chunk events one
\* behaviour of the upload specification receives.
MaxUploads == 1
MaxChunkMessages == 2

\* Events of either kind one behaviour of the shared-directory
\* specification receives.
MaxSharedMessages == 2

\* The connections of the upload specification.
Sessions == {"u1", "u2"}

\* The file name the peers upload under, chunk indexes and chunk counts.
FileNames == {"f.csv"}
ChunkIndexes == {0, 1, 2}
ChunkCounts == {1, 2}

\* Base64 chunk contents: "QQ==" encodes the byte 65 and "Qg==" the byte 66,
\* the empty string encodes no byte.
ChunkContents == {"QQ==", "Qg==", Empty}

\* The tenant fields a successful identify binds to each session.
SessionTenant ==
  [s \in Sessions |-> IF s = "u1" THEN <<"s1", "A">> ELSE <<"s2", "B">>]

\* Buffer.from(chunk, 'base64')
Decode(chunk) ==
  CASE chunk = "QQ==" -> <<65>>
    [] chunk = "Qg==" -> <<66>>
    [] OTHER -> <<>>

\* What a file holds after two write streams wrote it at the same time.
Garbled == <<0>>

\* `${socket.appId}_${fileName}`
chunkKey(appId, fileName) == <<appId, fileName>>

\* The object csv_bulk_upload_start puts in csvChunkStorage; `arrivals`
\* lists the indexes chunks.set was called with, in order.
UploadInfo(appId, fileName, totalChunks) ==
  [appId |-> appId, fileName |-> fileName, totalChunks |-> totalChunks,
   chunks |-> [i \in {} |-> Empty], arrivals |-> <<>>]

\* `!chunk` in the write loop: the index is absent or holds an empty string.
MissingChunk(chunks, i) == i \notin DOMAIN chunks \/ chunks[i] = Empty

\* The first index of 0..totalChunks-1 at which the write loop throws;
\* totalChunks when it runs to its end.
FirstMissing(chunks, totalChunks) ==
  LET bad == { i \in 0..(totalChunks - 1) : MissingChunk(chunks, i) }
  IN IF bad = {} THEN totalChunks
     ELSE CHOOSE i \in bad : \A j \in bad : i <= j

\* The bytes chunk index i contributes to the stream.
ChunkBytes(chunks, i) == IF i \in DOMAIN chunks THEN Decode(chunks[i]) ELSE <<>>

\* The bytes the write loop hands to the stream for the indexes 0..n-1, in
\* this order.
Written(chunks, n) ==
  LET f[k \in 0..n] == IF k = 0 THEN <<>> ELSE f[k - 1] \o ChunkBytes(chunks, k - 1)
  IN f[n]

\* chunks.size
Size(chunks) == Cardinality(DOMAIN chunks)

\* chunks.set(chunkIndex, chunkContent)
SetChunk(info, chunkIndex, chunkContent) ==
  [info EXCEPT
     !.chunks = [i \in DOMAIN info.chunks \cup {chunkIndex} |->
                   IF i = chunkIndex THEN chunkContent ELSE info.chunks[i]],
     !.arrivals = Append(@, chunkIndex)]

\* A map without one of its keys.
Without(map, key) == [k \in DOMAIN map \ {key} |-> map[k]]

\* A map with a key set.
With(map, key, val) == [k \in DOMAIN map \cup {key} |-> IF k = key THEN val ELSE map[k]]

\* The empty map.
NoEntries == [k \in {} |-> 0]

\* An event emitted to the peer by the upload handlers.
UpEmit(ev, success) == [ev |-> ev, success |-> success]

\* One step of the upload handlers (or of a timer callback they set) of
\* session s: what it did, for which accumulator, what it emitted, whether
\* the connection had been closed before, and for the steps they apply to:
\* the size of the accumulator and the count of the message at the completion
\* test, the bytes written to the file, the bytes loaded from it, and whether
\* no other stream was writing the file.
UpStep(s, what, acc, emits, size, total, bytes, alone) ==
  [sess |-> s, what |-> what, acc |-> acc, emits |-> emits,
   closed |-> upSess[s].state = "closed", size |-> size, total |-> total,
   bytes |-> bytes, alone |-> alone]

NoUpStep ==
  [sess |-> "none", what |-> "none", acc |-> 0, emits |-> <<>>, closed |-> FALSE,
   size |-> 0, total |-> 0, bytes |-> <<>>, alone |-> TRUE]

\* A suspended upload handler or a pending timer: where it is, the
\* accumulator (uploadInfo) it holds, the totalChunks of its message, and
\* whether another stream was open on the file while its own was.
UpTask(pc, acc, totalChunks) ==
  [pc |-> pc, acc |-> acc, totalChunks |-> totalChunks, raced |-> FALSE]

\* The handlers (of any session) that have a write stream open on the file.
Writers(fileName) ==
  UNION { { <<s, i>> : i \in { j \in 1..Len(upTasks[s]) :
                                 /\ upTasks[s][j].pc = "end"
                                 /\ accs[upTasks[s][j].acc].fileName = fileName } } :
          s \in Sessions }

\* io.on('connection') for a session of the upload specification; the
\* tenant fields are those a successful identify binds.
UpConnect(s) ==
  /\ upSess[s].state = "none"
  /\ upSess' = [upSess EXCEPT ![s] = [state |-> "open",
                                        storeId |-> SessionTenant[s][1],
                                        appId |-> SessionTenant[s][2]]]
  /\ upStep' = NoUpStep
  /\ UNCHANGED <<csvChunkStorage, accs, upTasks, disk, chunkMessages>>
  /\ UNCHANGED <<licenseVars, sessionVars, dispatchVars, callVars, hostVars>>

\* socket.on('disconnect') for a session of the upload specification.
UpDisconnect(s) ==
  /\ upSess[s].state = "open"
  /\ upSess' = [upSess EXCEPT ![s].state = "closed"]
  /\ upStep' = NoUpStep
  /\ UNCHANGED <<csvChunkStorage, accs, upTasks, disk, chunkMessages>>
  /\ UNCHANGED <<licenseVars, sessionVars, dispatchVars, callVars, hostVars>>

\* Payloads of csv_bulk_upload_start and of csv_bulk_upload_chunk.
StartPayloads == [fileName : FileNames, totalChunks : ChunkCounts]
ChunkPayloads ==
  [fileName : FileNames, chunkIndex : ChunkIndexes, totalChunks : ChunkCounts,
   chunkContent : ChunkContents]

\* The chunk messages of the upload specification: index 0 carries "QQ=="
\* or an empty chunk, the other indexes carry "Qg==".
SoloChunkPayloads ==
  { d \in ChunkPayloads :
      IF d.chunkIndex = 0 THEN d.chunkContent \in {"QQ==", Empty}
      ELSE d.chunkContent = "Qg==" }

\* The messages of the shared-directory specification: each session uploads
\* a file of one chunk, with bytes of its own.
SharedStartPayloads == { d \in StartPayloads : d.totalChunks = 1 }
SharedChunkPayloads(s) ==
  { d \in ChunkPayloads :
      /\ d.chunkIndex = 0 /\ d.totalChunks = 1
      /\ d.chunkContent = IF s = "u1" THEN "QQ==" ELSE "Qg==" }

\* socket.on('csv_bulk_upload_start')
UploadStart(s, d, maxUploads) ==
  /\ upSess[s].state = "open"
  /\ Len(accs) < maxUploads
  /\ accs' = Append(accs, UploadInfo(upSess[s].appId, d.fileName, d.totalChunks))
  /\ csvChunkStorage' =
       [csvChunkStorage EXCEPT
          ![s] = With(@, chunkKey(upSess[s].appId, d.fileName), Len(accs) + 1)]
  /\ upStep' = UpStep(s, "start", Len(accs) + 1, <<>>, 0, d.totalChunks, <<>>, TRUE)
  /\ UNCHANGED <<upSess, upTasks, disk, chunkMessages>>
  /\ UNCHANGED <<licenseVars, sessionVars, dispatchVars, callVars, hostVars>>

\* socket.on('csv_bulk_upload_chunk'), up to `await mkdir`.
UploadChunk(s, d, maxMessages) ==
  /\ upSess[s].state = "open"
  /\ chunkMessages < maxMessages
  /\ chunkMessages' = chunkMessages + 1
  /\ LET key == chunkKey(upSess[s].appId, d.fileName) IN
     IF key \notin DOMAIN csvChunkStorage[s] THEN
       /\ upStep' = UpStep(s, "no-upload", 0, <<>>, 0, d.totalChunks, <<>>, TRUE)
       /\ UNCHANGED <<accs, upTasks>>
     ELSE
       LET a == csvChunkStorage[s][key]
           info == SetChunk(accs[a], d.chunkIndex, d.chunkContent)
           complete == Size(info.chunks) = d.totalChunks
       IN /\ accs' = [accs EXCEPT ![a] = info]
          /\ upTasks' =
               IF complete
               THEN [upTasks EXCEPT ![s] = Append(@, UpTask("mkdir", a, d.totalChunks))]
               ELSE upTasks
          /\ upStep' = UpStep(s, IF complete THEN "reassemble" ELSE "stored", a, <<>>,
                              Size(info.chunks), d.totalChunks, <<>>, TRUE)
  /\ UNCHANGED <<upSess, csvChunkStorage, disk>>
  /\ UNCHANGED <<licenseVars, sessionVars, dispatchVars, callVars, hostVars>>

\* The catch block of the chunk handler.
UploadFailed(s, i, what, files) ==
  /\ upTasks' = [upTasks EXCEPT ![s] = RemoveAt(@, i)]
  /\ disk' = files
  /\ upStep' = UpStep(s, what, upTasks[s][i].acc,
                      <<UpEmit("csv_bulk_upload_response", FALSE)>>,
                      0, upTasks[s][i].totalChunks, <<>>, TRUE)
  /\ UNCHANGED <<upSess, csvChunkStorage, accs, chunkMessages>>

\* The chunk handler resumes after mkdir: createWriteStream and the write
\* loop, up to the await of writeStream.end.
UploadWrite(s, i) ==
  /\ i \in 1..Len(upTasks[s])
  /\ upTasks[s][i].pc = "mkdir"
  /\ LET t == upTasks[s][i]
         info == accs[t.acc]
         stop == FirstMissing(info.chunks, t.totalChunks)
     IN \E mkdirOk \in BOOLEAN :
          IF ~mkdirOk THEN UploadFailed(s, i, "mkdir-failed", disk)
          ELSE IF stop < t.totalChunks
          THEN UploadFailed(s, i, "missing-chunk",
                            With(disk, info.fileName, Written(info.chunks, stop)))
          ELSE /\ upTasks' =
                    [s2 \in Sessions |->
                       [j \in 1..Len(upTasks[s2]) |->
                          IF s2 = s /\ j = i
                          THEN [t EXCEPT !.pc = "end",
                                         !.raced = Writers(info.fileName) # {}]
                          ELSE IF <<s2, j>> \in Writers(info.fileName)
                          THEN [upTasks[s2][j] EXCEPT !.raced = TRUE]
                          ELSE upTasks[s2][j]]]
               /\ disk' = With(disk, info.fileName, <<>>)
               /\ upStep' = UpStep(s, "writing", t.acc, <<>>, 0, t.totalChunks, <<>>, TRUE)
               /\ UNCHANGED <<upSess, csvChunkStorage, accs, chunkMessages>>
  /\ UNCHANGED <<licenseVars, sessionVars, dispatchVars, callVars, hostVars>>

\* writeStream.end completes: the bytes are in the file. When another stream
\* was open on the same file the outcome is either this stream's bytes or a
\* mix.
UploadEnd(s, i) ==
  /\ i \in 1..Len(upTasks[s])
  /\ upTasks[s][i].pc = "end"
  /\ LET t == upTasks[s][i]
         info == accs[t.acc]
         alone == ~t.raced
         mine == Written(info.chunks, t.totalChunks)
     IN \E streamOk \in BOOLEAN, bytes \in {mine, Garbled} :
          /\ bytes = Garbled => ~alone
          /\ IF ~streamOk THEN UploadFailed(s, i, "stream-failed", disk)
             ELSE /\ upTasks' = [upTasks EXCEPT ![s][i].pc = "verify"]
                  /\ disk' = With(disk, info.fileName, bytes)
                  /\ upStep' = UpStep(s, "written", t.acc, <<>>, 0, t.totalChunks, bytes, alone)
                  /\ UNCHANGED <<upSess, csvChunkStorage, accs, chunkMessages>>
  /\ UNCHANGED <<licenseVars, sessionVars, dispatchVars, callVars, hostVars>>

\* stat and readFile return: the accumulator is deleted from the map, the
\* response is emitted and the import is scheduled with setTimeout.
UploadVerify(s, i) ==
  /\ i \in 1..Len(upTasks[s])
  /\ upTasks[s][i].pc = "verify"
  /\ LET t == upTasks[s][i]
         info == accs[t.acc]
     IN IF info.fileName \notin DOMAIN disk THEN UploadFailed(s, i, "verify-failed", disk)
        ELSE /\ csvChunkStorage' =
                  [csvChunkStorage EXCEPT
                     ![s] = Without(@, chunkKey(upSess[s].appId, info.fileName))]
             /\ upTasks' = [upTasks EXCEPT ![s][i].pc = "timer"]
             /\ upStep' = UpStep(s, "uploaded", t.acc,
                                 <<UpEmit("csv_bulk_upload_response", TRUE)>>,
                                 0, t.totalChunks, <<>>, TRUE)
             /\ UNCHANGED <<upSess, accs, disk, chunkMessages>>
  /\ UNCHANGED <<licenseVars, sessionVars, dispatchVars, callVars, hostVars>>

\* ------------------------------------------------------------ CSV import

\* What importCSVFileToMySQL meets in the target server and on disk: how many
\* of the three probe queries succeed before one fails (local_infile,
\* secure_file_priv, VERSION()), the values of the two variables, and
\* whether getTableColumns, the LOCAL load, the test for the secure
\* directory, the copy into it and the load from it succeed.
LoadEnvs ==
  [probes : 0..3,
   localInfile : {"ON", "1", "OFF", Undef},
   secureFilePriv : {Undef, "NULL", Empty, "/secure"},
   columnsOk : BOOLEAN, localLoadOk : BOOLEAN,
   secureDirExists : BOOLEAN, copyOk : BOOLEAN, secureLoadOk : BOOLEAN]

\* The load statements of the two strategies.
LoadLocal == "LOAD DATA LOCAL INFILE"
LoadSecure == "LOAD DATA INFILE"

\* localInfileEnabled after the probes: the first probe succeeded and
\* returned 'ON' or '1'.
localInfileEnabled(env) == env.probes >= 1 /\ env.localInfile \in {"ON", "1"}

\* secureFilePrivDir after the probes: assigned only when the first two
\* probes succeeded.
secureFilePrivDir(env) == IF env.probes >= 2 THEN env.secureFilePriv ELSE Null

\* `secureFilePrivDir && secureFilePrivDir !== 'NULL' && secureFilePrivDir !== ''`
SecureDirConfigured(dir) == dir \notin {Null, Undef, "NULL", Empty}

\* Strategy 2 and the final throw: what importCSVFileToMySQL does when
\* strategy 1 did not return; loads are the statements executed so far.
AfterLocalFailure(env, loads) ==
  IF /\ SecureDirConfigured(secureFilePrivDir(env))
     /\ env.secureDirExists /\ env.copyOk /\ env.columnsOk
  THEN [ok |-> env.secureLoadOk, loads |-> Append(loads, LoadSecure)]
  ELSE [ok |-> FALSE, loads |-> loads]

\* importCSVFileToMySQL(database, tableName, filePath, fileName): whether it
\* returns (ok) or throws, and the load statements it executed, in order.
importCSVFileToMySQL(fileExists, env) ==
  IF ~fileExists THEN [ok |-> FALSE, loads |-> <<>>]
  ELSE IF localInfileEnabled(env) /\ env.columnsOk
       THEN IF env.localLoadOk
            THEN [ok |-> TRUE, loads |-> <<LoadLocal>>]
            ELSE AfterLocalFailure(env, <<LoadLocal>>)
       ELSE AfterLocalFailure(env, <<>>)

\* The environments the imports of the upload specification run in: a
\* server with local-infile enabled, and one on which both strategies fail.
UploadLoadEnvs ==
  { [probes |-> 3, localInfile |-> "ON", secureFilePriv |-> Empty,
     columnsOk |-> TRUE, localLoadOk |-> TRUE, secureDirExists |-> FALSE,
     copyOk |-> FALSE, secureLoadOk |-> FALSE],
    [probes |-> 3, localInfile |-> "OFF", secureFilePriv |-> Empty,
     columnsOk |-> TRUE, localLoadOk |-> FALSE, secureDirExists |-> FALSE,
     copyOk |-> FALSE, secureLoadOk |-> FALSE] }

\* The setTimeout callback of the chunk handler: processSingleCSVFile up to
\* the call of importCSVFileToMySQL. The database is looked up for
\* socket.storeId and uploadInfo.appId; with the file in place the two
\* initial progress callbacks emit csv_bulk_import_progress.
ImportStart(s, i) ==
  /\ i \in 1..Len(upTasks[s])
  /\ upTasks[s][i].pc = "timer"
  /\ LET t == upTasks[s][i]
         info == accs[t.acc]
     IN \E execOk \in BOOLEAN, tableExists \in BOOLEAN :
          LET database == getDatabaseByStoreAndApp(connectionPool, execOk,
                                                   upSess[s].storeId, info.appId)
              found == database # Null /\ tableExists /\ info.fileName \in DOMAIN disk
          IN /\ upTasks' = [upTasks EXCEPT ![s][i].pc = IF found THEN "load" ELSE "failed"]
             /\ upStep' = UpStep(s, "import", t.acc,
                                 IF found
                                 THEN <<UpEmit("csv_bulk_import_progress", TRUE),
                                        UpEmit("csv_bulk_import_progress", TRUE)>>
                                 ELSE <<>>,
                                 0, t.totalChunks, <<>>, TRUE)
  /\ UNCHANGED <<upSess, csvChunkStorage, accs, disk, chunkMessages>>
  /\ UNCHANGED <<licenseVars, sessionVars, dispatchVars, callVars, hostVars>>

\* importCSVFileToMySQL returns or throws: the target server has read the
\* bytes the file holds now; on success the completion progress is emitted.
ImportLoad(s, i) ==
  /\ i \in 1..Len(upTasks[s])
  /\ upTasks[s][i].pc = "load"
  /\ LET t == upTasks[s][i]
         info == accs[t.acc]
         present == info.fileName \in DOMAIN disk
     IN \E env \in UploadLoadEnvs :
          LET r == importCSVFileToMySQL(present, env) IN
          /\ upTasks' = [upTasks EXCEPT ![s][i].pc = IF r.ok THEN "unlink" ELSE "failed"]
          /\ upStep' = UpStep(s, IF r.ok THEN "loaded" ELSE "load-failed", t.acc,
                              IF r.ok THEN <<UpEmit("csv_bulk_import_progress", TRUE)>>
                              ELSE <<>>,
                              0, t.totalChunks,
                              IF r.ok THEN disk[info.fileName] ELSE <<>>, TRUE)
  /\ UNCHANGED <<upSess, csvChunkStorage, accs, disk, chunkMessages>>
  /\ UNCHANGED <<licenseVars, sessionVars, dispatchVars, callVars, hostVars>>

\* fs.unlink(filePath) returns, on the success path or in the catch block of
\* processSingleCSVFile: the file of that name is gone and the timer
\* callback emits csv_file_import_complete.
ImportCleanup(s, i) ==
  /\ i \in 1..Len(upTasks[s])
  /\ upTasks[s][i].pc \in {"unlink", "failed"}
  /\ LET t == upTasks[s][i]
         info == accs[t.acc]
     IN /\ disk' = Without(disk, info.fileName)
        /\ upTasks' = [upTasks EXCEPT ![s] = RemoveAt(@, i)]
        /\ upStep' = UpStep(s, "imported", t.acc,
                            <<UpEmit("csv_file_import_complete", t.pc = "unlink")>>,
                            0, t.totalChunks, <<>>, TRUE)
  /\ UNCHANGED <<upSess, csvChunkStorage, accs, chunkMessages>>
  /\ UNCHANGED <<licenseVars, sessionVars, dispatchVars, callVars, hostVars>>

\* ------------------------------------------------- LOAD column mappings

\* Columns a mapping is built for in one call.
MaxColumns == 2

\* The branches of the CASE expression of one SET statement, in the order
\* of the generated text.
BranchNull == "null-or-empty"
BranchBoolean == "boolean-word"
BranchDefaultDate == "default-date"
BranchIsoDateTime == "iso-datetime"
BranchDateTime == "datetime"
BranchDate == "date"
BranchInteger == "integer-cast"
BranchDecimal == "decimal-cast"
BranchText == "text"

\* A mapping that protects no column.
isProtectedColumn_none(tableCol) == FALSE

\* const isProtectedColumn = tableCol === 'StockId' || tableCol === 'ItemCode'
isProtectedColumn(tableCol) == tableCol \in {"StockId", "ItemCode"}

\* The WHEN branches of the CASE expression generated for a table column.
Branches(tableCol) ==
  <<BranchNull>>
  \o (IF ~isProtectedColumn(tableCol) THEN <<BranchBoolean>> ELSE <<>>)
  \o <<BranchDefaultDate, BranchIsoDateTime, BranchDateTime, BranchDate>>
  \o (IF ~isProtectedColumn(tableCol) THEN <<BranchInteger, BranchDecimal>> ELSE <<>>)
  \o <<BranchText>>

\* csvCol.replace(/[^a-zA-Z0-9]/g, '_') on the headers of the model.
Sanitized(csvCol) == IF csvCol = "Stock Id" THEN "Stock_Id" ELSE csvCol

\* buildColumnMappings(csvHeaders, tableColumns): one user variable per CSV
\* header, and for the table column at each position that has a CSV header
\* the SET statement that reads the variable at the same position.
buildColumnMappings(csvHeaders, tableColumns) ==
  LET n == IF Len(tableColumns) < Len(csvHeaders) THEN Len(tableColumns)
           ELSE Len(csvHeaders)
  IN [csvColumns |-> [i \in 1..Len(csvHeaders) |-> Sanitized(csvHeaders[i])],
      setStatements |->
        [i \in 1..n |-> [column |-> tableColumns[i],
                         variable |-> Sanitized(csvHeaders[i]),
                         branches |-> Branches(tableColumns[i])]]]

\* CSV field values: an all-digit identifier with leading zeros, a boolean
\* word, a decimal, and an empty field.
FieldValues == {"007", "true", "1.5", Empty}

\* Whether the WHEN condition of a branch holds for a value.
BranchHolds(branch, v) ==
  CASE branch = BranchNull -> v = Empty
    [] branch = BranchBoolean -> v = "true"
    [] branch = BranchDate -> v = "2024-01-01"
    [] branch = BranchInteger -> v = "007"
    [] branch = BranchDecimal -> v = "1.5"
    [] branch = BranchText -> TRUE
    [] OTHER -> FALSE

\* The value a branch yields: NULL, 1 for a true word, a DATE, the number
\* CAST(... AS SIGNED) or CAST(... AS DECIMAL(18,4)) gives, or the trimmed text.
BranchValue(branch, v) ==
  CASE branch = BranchNull -> [type |-> "null", text |-> Empty]
    [] branch = BranchBoolean -> [type |-> "number", text |-> "1"]
    [] branch = BranchDate -> [type |-> "date", text |-> v]
    [] branch = BranchInteger -> [type |-> "number", text |-> "7"]
    [] branch = BranchDecimal -> [type |-> "number", text |-> "1.5000"]
    [] OTHER -> [type |-> "text", text |-> v]

\* What the target server stores for a field under a CASE expression: the
\* value of the first branch whose condition holds.
Coerce(branches, v) ==
  LET hit == { i \in 1..Len(branches) : BranchHolds(branches[i], v) }
      first == CHOOSE i \in hit : \A j \in hit : i <= j
  IN BranchValue(branches[first], v)

\* CSV headers and table columns of the model.
CsvHeaders == {"StockId", "Stock Id"}
TableColumns == {"StockId", "ItemCode", "Qty", "stockid"}

\* The sequences of length 1..n over a set.
SeqsUpTo(S, n) == UNION { [1..k -> S] : k \in 1..n }

\* No pure function has been called.
NoArg == [op |-> "none"]
NoRet == [op |-> "none"]

\* importCSVFileToMySQL reaches strategy 1 for a file with these headers and
\* one data row, against a table with these columns.
MappingInputs ==
  UNION { { [op |-> "buildColumnMappings", csvHeaders |-> h, tableColumns |-> c,
             fields |-> f] :
              c \in SeqsUpTo(TableColumns, MaxColumns),
              f \in [1..Len(h) -> FieldValues] } :
          h \in SeqsUpTo(CsvHeaders, MaxColumns) }

\* The mapping is built and the target server loads the data row with it.
BuildMappings ==
  /\ arg.op = "buildColumnMappings"
  /\ ret = NoRet
  /\ LET m == buildColumnMappings(arg.csvHeaders, arg.tableColumns) IN
     ret' = [op |-> "buildColumnMappings", mappings |-> m,
             stored |-> [i \in 1..Len(m.setStatements) |->
                            Coerce(m.setStatements[i].branches, arg.fields[i])]]
  /\ UNCHANGED arg
  /\ UNCHANGED <<licenseVars, sessionVars, dispatchVars, uploadVars, hostVars>>

\* ------------------------------------------------ column definitions

\* Columns of a schema a peer sends with create_table_from_schema.
SchemaColumns ==
  [IS_NULLABLE : {"YES", "NO"},
   COLUMN_DEFAULT : {Null, "getdate()", "newid()", "5", "abc"},
   DATA_TYPE : {"varchar", "int", "bit", "datetime"},
   IS_IDENTITY : {0, 1},
   COLUMN_KEY : {"PRI", Empty}]

\* formatDefaultValue(defaultValue, dataType): the rendered default, or null.
formatDefaultValue(defaultValue, dataType) ==
  CASE defaultValue = Null -> Null
    [] defaultValue = "getdate()" -> "CURRENT_TIMESTAMP"
    [] defaultValue = "newid()" -> Null
    [] dataType = "varchar" -> IF defaultValue = "5" THEN "'5'" ELSE "'abc'"
    [] dataType = "int" -> IF defaultValue = "5" THEN "5" ELSE Null
    [] dataType = "bit" -> "0"
    [] OTHER -> Null

\* convertToMySQLType(column) on the data types of the model.
convertToMySQLType(column) ==
  CASE column.DATA_TYPE = "varchar" -> "VARCHAR(255)"
    [] column.DATA_TYPE = "int" -> "INT"
    [] column.DATA_TYPE = "bit" -> "BOOLEAN"
    [] OTHER -> "DATETIME"

\* A rule that makes every non-nullable source column NOT NULL.
EnforceNotNull_always(column, hasDefault) == column.IS_NULLABLE = "NO"

\* column.IS_NULLABLE === 'NO' && (hasDefault || column.IS_IDENTITY === 1 ||
\* column.COLUMN_KEY === 'PRI')
EnforceNotNull(column, hasDefault) ==
  /\ column.IS_NULLABLE = "NO"
  /\ hasDefault \/ column.IS_IDENTITY = 1 \/ column.COLUMN_KEY = "PRI"

\* The definition createTableWithSchema renders for one column: its type,
\* the DEFAULT clause (null when none is rendered), the nullability clause,
\* and whether AUTO_INCREMENT follows and the column joins the primary key.
columnDefinition(column) ==
  LET defaultValue == formatDefaultValue(column.COLUMN_DEFAULT, column.DATA_TYPE)
      hasDefault == column.COLUMN_DEFAULT # Null /\ defaultValue # Null
  IN [type |-> convertToMySQLType(column),
      default |-> IF hasDefault THEN defaultValue ELSE Null,
      nullability |-> IF EnforceNotNull(column, hasDefault) THEN "NOT NULL"
                      ELSE "NULL DEFAULT NULL",
      autoIncrement |-> column.IS_IDENTITY = 1,
      primaryKey |-> column.COLUMN_KEY = "PRI"]

ColumnInputs == { [op |-> "columnDefinition", column |-> c] : c \in SchemaColumns }

\* createTableWithSchema renders the column.
RenderColumn ==
  /\ arg.op = "columnDefinition"
  /\ ret = NoRet
  /\ ret' = [op |-> "columnDefinition", colDef |-> columnDefinition(arg.column)]
  /\ UNCHANGED arg
  /\ UNCHANGED <<licenseVars, sessionVars, dispatchVars, uploadVars, hostVars>>

\* ----------------------------------------------- import strategy choice

ImportInputs == { [op |-> "importCSVFileToMySQL", env |-> e, fileExists |-> x] :
                    e \in LoadEnvs, x \in BOOLEAN }

\* importCSVFileToMySQL runs in the drawn environment.
RunImport ==
  /\ arg.op = "importCSVFileToMySQL"
  /\ ret = NoRet
  /\ ret' = [op |-> "importCSVFileToMySQL",
             result |-> importCSVFileToMySQL(arg.fileExists, arg.env)]
  /\ UNCHANGED arg
  /\ UNCHANGED <<licenseVars, sessionVars, dispatchVars, uploadVars, hostVars>>

\* --------------------------------------------------- legacy row inserts

\* Calls of handleInsert one behaviour of the legacy specification makes.
MaxLegacyCalls == 2

\* getWhereFields(tableName)
getWhereFields(tableName) ==
  CASE tableName = "SalesDetail" -> <<"InvoiceNo", "StockId">>
    [] tableName = "StockItems" -> <<"StockId">>
    [] tableName = "Sales" -> <<"InvoiceNo", "TransactionDate">>
    [] tableName = "MenuItem" -> <<"ItemCode">>
    [] tableName = "SubMenuLinkDetail" -> <<"ItemCode", "SubItemCode">>
    [] OTHER -> <<"ID">>

\* buildWhereCondition(tableName, data, isOldData) for a flat row (one
\* without `new` and `old`): the WHERE fields the row has, in the order of
\* the configuration, or ID when it has none of them.
buildWhereCondition(tableName, data) ==
  LET whereFields == getWhereFields(tableName)
      InData(c) == Has(data, c)
      found == SelectSeq(whereFields, InData)
  IN IF found = <<>> /\ Has(data, "ID") THEN <<"ID">> ELSE found

\* getUpdateData(tableName, data) for a flat row: the row without ID (or
\* without _key when it has no truthy ID) and without the WHERE fields.
getUpdateData(tableName, data) ==
  LET dropped == (IF ~Falsy(Get(data, "ID")) THEN {"ID"} ELSE {"_key"})
                 \cup Range(getWhereFields(tableName))
  IN [c \in DOMAIN data \ dropped |-> data[c]]

\* The rows of the table that hold the key values of `row` under one of the
\* unique keys: the rows a plain INSERT of `row` collides with.
Duplicates(store, keys, row) ==
  { i \in 1..Len(store) :
      \E K \in keys : K \subseteq DOMAIN row /\ \A c \in K : Get(store[i], c) = row[c] }

\* The outcome of handleInsert / handleUpdate: thrown or returned, the
\* operation and rowsAffected of the result, and the rows afterwards.
LegacyResult(threw, operation, rowsAffected, store) ==
  [threw |-> threw, operation |-> operation, rowsAffected |-> rowsAffected,
   store |-> store]

\* handleUpdate(database, TableName, Data) for a flat row.
handleUpdate(store, keys, tableName, data) ==
  LET whereCondition == buildWhereCondition(tableName, data)
      updateData == getUpdateData(tableName, data)
      stmt == [ok |-> TRUE, kind |-> "UPDATE", set |-> updateData, oldKeys |-> {},
               fields |-> whereCondition,
               values |-> [i \in 1..Len(whereCondition) |-> data[whereCondition[i]]]]
      hit == { i \in 1..Len(store) : Matches(store[i], stmt.fields, stmt.values) }
      r == executeQuery(store, keys, stmt)
  IN IF whereCondition = <<>> THEN LegacyResult(TRUE, "UPDATE", 0, store)
     ELSE IF DOMAIN updateData = {} THEN LegacyResult(FALSE, "UPDATE", 0, store)
     ELSE IF ~r.ok THEN LegacyResult(TRUE, "UPDATE", 0, store)
     ELSE LegacyResult(FALSE, "UPDATE", Cardinality(hit), r.store)

\* handleInsert(database, TableName, Data, isFullSync): a plain INSERT; on
\* ER_DUP_ENTRY the row is skipped in full-sync mode and handed to
\* handleUpdate otherwise; every other error is thrown.
handleInsert(store, keys, tableExists, tableName, data, isFullSync) ==
  IF ~tableExists THEN LegacyResult(TRUE, "INSERT", 0, store)
  ELSE IF \E K \in keys : ~(K \subseteq DOMAIN data)
  THEN LegacyResult(TRUE, "INSERT", 0, store)
  ELSE IF Duplicates(store, keys, data) = {}
  THEN LegacyResult(FALSE, "INSERT", 1, Append(store, data))
  ELSE IF isFullSync THEN LegacyResult(FALSE, "SKIP", 0, store)
  ELSE handleUpdate(store, keys, tableName, data)

\* The tables of the legacy specification: name, business type and the
\* columns the source schema marks as primary key.
LegacyTables ==
  { <<"Sales", "retail", {"InvoiceNo"}>>, <<"StockItems", "retail", {"StockId"}>>,
    <<"Other", Undef, {"ID"}>>, <<"Other", Undef, {"id"}>> }

\* The rows peers send for a table keyed by K: the key with value 1, a
\* Note, and for Sales a TransactionDate.
LegacyRows(tableName, K) ==
  LET key == [c \in K |-> "1"] IN
  IF tableName = "Sales"
  THEN { Merge([TransactionDate |-> d, Note |-> n], key) :
           d \in {"d1", "d2"}, n \in {"a", "b"} }
  ELSE { Merge([Note |-> n], key) : n \in {"a", "b"} }

AllLegacyRows == UNION { LegacyRows(t[1], t[3]) : t \in LegacyTables }

\* A row of the table arrives at handleInsert: from the row loop of
\* full_data_sync_response (isFullSync) or from processSyncData.
LegacyInsert(data, isFullSync) ==
  /\ Len(rowLog) < MaxLegacyCalls
  /\ \E K \in rowTable.keys : data \in LegacyRows(rowTable.tableName, K)
  /\ \E tableExists \in BOOLEAN :
       LET r == handleInsert(rowStore, rowTable.keys, tableExists,
                             rowTable.tableName, data, isFullSync)
       IN /\ rowStore' = r.store
          /\ rowLog' = Append(rowLog, [what |-> "handleInsert", data |-> data,
                                       isFullSync |-> isFullSync,
                                       tableExists |-> tableExists,
                                       before |-> rowStore, result |-> r])
  /\ UNCHANGED <<rowTable, rowOps, ddlCall>>
  /\ UNCHANGED <<licenseVars, sessionVars, uploadVars, callVars, hostVars>>



\* -------------------------------------------------------- connection pools

\* getPool calls that may be suspended at a time, and pool objects one
\* behaviour creates.
MaxPoolCalls == 2
MaxPools == 3

\* Physical database names.
Databases == {"A", "B"}

\* mysql.createPool(poolConfig): a new pool object whose connection test is
\* pending.
createPool(database) ==
  Append(poolObjs, [database |-> database, status |-> "new", ended |-> FALSE])

\* getPool(database) up to its first await. With a pool in the map the call
\* suspends in the test of that pool; without one it creates a pool and
\* suspends in the test of the new pool. Event handlers call it through
\* executeQuery and getConnection for as long as the process lives.
GetPoolCall(database) ==
  /\ proc \in {"running", "closing", "drained"}
  /\ Len(poolCalls) < MaxPoolCalls
  /\ IF database \in DOMAIN pools
     THEN /\ poolCalls' = Append(poolCalls, [database |-> database, pc |-> "test",
                                              pool |-> pools[database]])
          /\ UNCHANGED poolObjs
     ELSE /\ Len(poolObjs) < MaxPools
          /\ poolObjs' = createPool(database)
          /\ poolCalls' = Append(poolCalls, [database |-> database, pc |-> "connect",
                                              pool |-> Len(poolObjs) + 1])
  /\ UNCHANGED <<proc, pools, handed, syncCalls, syncRet, job, dbTables>>
  /\ UNCHANGED <<licenseVars, sessionVars, dispatchVars, uploadVars, callVars>>

\* getPool resumed after pool.getConnection. The test of a pool taken from
\* the map fails when the pool has been ended: the entry of the database is
\* deleted and a pool is created. The test of a new pool succeeds or fails;
\* on success the pool is set in the map and returned, on failure the error
\* is thrown.
GetPoolResume(i) ==
  /\ proc # "exit0"
  /\ i \in 1..Len(poolCalls)
  /\ LET c == poolCalls[i] IN
     IF c.pc = "test"
     THEN IF ~poolObjs[c.pool].ended
          THEN /\ handed' = handed \cup {<<c.database, c.pool>>}
               /\ poolCalls' = RemoveAt(poolCalls, i)
               /\ UNCHANGED <<pools, poolObjs>>
          ELSE /\ Len(poolObjs) < MaxPools
               /\ pools' = Without(pools, c.database)
               /\ poolObjs' = createPool(c.database)
               /\ poolCalls' = [poolCalls EXCEPT ![i] = [database |-> c.database,
                                                          pc |-> "connect",
                                                          pool |-> Len(poolObjs) + 1]]
               /\ UNCHANGED handed
     ELSE \E ok \in BOOLEAN :
            /\ poolCalls' = RemoveAt(poolCalls, i)
            /\ IF ok
               THEN /\ pools' = With(pools, c.database, c.pool)
                    /\ poolObjs' = [poolObjs EXCEPT ![c.pool].status = "live"]
                    /\ handed' = handed \cup {<<c.database, c.pool>>}
               ELSE /\ poolObjs' = [poolObjs EXCEPT ![c.pool].status = "failed"]
                    /\ UNCHANGED <<pools, handed>>
  /\ UNCHANGED <<proc, syncCalls, syncRet, job, dbTables>>
  /\ UNCHANGED <<licenseVars, sessionVars, dispatchVars, uploadVars, callVars>>

\* process.on('SIGTERM') and process.on('SIGINT'): io.close() is called and
\* closeAll starts, without a wait for the handlers in flight.
Signal ==
  /\ proc = "running"
  /\ proc' = "closing"
  /\ UNCHANGED <<pools, poolObjs, poolCalls, handed, syncCalls, syncRet, job, dbTables>>
  /\ UNCHANGED <<licenseVars, sessionVars, dispatchVars, uploadVars, callVars>>

\* closeAll, one turn of its loop: `await pool.end()` for a pool of the map.
CloseAllStep(database) ==
  /\ proc = "closing"
  /\ database \in DOMAIN pools
  /\ ~poolObjs[pools[database]].ended
  /\ poolObjs' = [poolObjs EXCEPT ![pools[database]].ended = TRUE]
  /\ UNCHANGED <<proc, pools, poolCalls, handed, syncCalls, syncRet, job, dbTables>>
  /\ UNCHANGED <<licenseVars, sessionVars, dispatchVars, uploadVars, callVars>>

\* closeAll after its loop: this.pools.clear().
CloseAllDone ==
  /\ proc = "closing"
  /\ \A d \in DOMAIN pools : poolObjs[pools[d]].ended
  /\ pools' = NoEntries
  /\ proc' = "drained"
  /\ UNCHANGED <<poolObjs, poolCalls, handed, syncCalls, syncRet, job, dbTables>>
  /\ UNCHANGED <<licenseVars, sessionVars, dispatchVars, uploadVars, callVars>>

\* licenseService.close() has returned and the callback of server.close
\* calls process.exit(0).
Exit ==
  /\ proc = "drained"
  /\ proc' = "exit0"
  /\ UNCHANGED <<pools, poolObjs, poolCalls, handed, syncCalls, syncRet, job, dbTables>>
  /\ UNCHANGED <<licenseVars, sessionVars, dispatchVars, uploadVars, callVars>>



\* ------------------------------------------------------- processSyncData

\* processSyncData calls that may be suspended at a time.
MaxSyncCalls == 2

\* A queue that keeps the SyncId of a call that ends in the rethrow.
finallyDelete_leak(queue, SyncId, outcome) ==
  IF outcome = "rethrow" THEN queue ELSE queue \ {SyncId}

\* finally { this.processingQueue.delete(SyncId) }
finallyDelete(queue, SyncId, outcome) == queue \ {SyncId}

\* What a call of processSyncData did: how it ended, whether it changed the
\* target store, the queue it left, and whether a call with the same SyncId
\* was suspended when it started.
SyncRet(d, outcome, queue, dup) ==
  [op |-> "processSyncData", SyncId |-> d.SyncId, outcome |-> outcome,
   touched |-> outcome = "ok", queue |-> queue, dup |-> dup]

\* processSyncData(syncData) up to its first await. A payload that fails
\* validation and a SyncId found in the queue return at once; otherwise the
\* SyncId is put in the queue, and the call either suspends in handleInsert, handleUpdate or handleDelete,
\* returns for SCHEMA_CHANGE, or throws for an unknown machine or operation,
\* in each case through the finally block.
ProcessSyncCall(d) ==
  /\ proc = "running"
  /\ LET dup == \E i \in 1..Len(syncCalls) : syncCalls[i].SyncId = d.SyncId
         set == processingQueue \cup {d.SyncId}
         database == getDatabaseByMachine(d.MachineName)
         Return(outcome, queue) ==
           /\ processingQueue' = queue
           /\ syncRet' = SyncRet(d, outcome, queue, dup)
           /\ UNCHANGED syncCalls
     IN IF ~validateSyncData(d) THEN Return("invalid", processingQueue)
        ELSE IF d.SyncId \in processingQueue THEN Return("busy", processingQueue)
        ELSE IF database = Null \/ d.operation \notin {"INSERT", "UPDATE", "DELETE", "SCHEMA_CHANGE"}
        THEN Return("failed", finallyDelete(set, d.SyncId, "failed"))
        ELSE IF d.operation = "SCHEMA_CHANGE"
        THEN Return("disabled", finallyDelete(set, d.SyncId, "disabled"))
        ELSE /\ Len(syncCalls) < MaxSyncCalls
             /\ processingQueue' = set
             /\ syncCalls' = Append(syncCalls, [SyncId |-> d.SyncId, database |-> database,
                                                 data |-> d, dup |-> dup])
             /\ syncRet' = SyncRet(d, "suspended", set, dup)
  /\ UNCHANGED <<sock, tasks, timers, clientFullSyncStatus, tables, uploads, step>>
  /\ UNCHANGED <<proc, pools, poolObjs, poolCalls, handed, job, dbTables>>
  /\ UNCHANGED <<licenseVars, dispatchVars, uploadVars, callVars>>

\* processSyncData resumed after its handler: the row is stored, the
\* statement fails, or the table is missing and TABLE_NOT_EXISTS is thrown
\* again for the caller; the finally block runs on each of these paths.
ProcessSyncResume(i) ==
  /\ i \in 1..Len(syncCalls)
  /\ LET c == syncCalls[i] IN
     \E execOk \in BOOLEAN :
       LET outcome == IF c.database \notin tables THEN "rethrow"
                      ELSE IF execOk THEN "ok" ELSE "failed"
           queue == finallyDelete(processingQueue, c.SyncId, outcome)
       IN /\ processingQueue' = queue
          /\ syncCalls' = RemoveAt(syncCalls, i)
          /\ syncRet' = SyncRet(c.data, outcome, queue, c.dup)
  /\ UNCHANGED <<sock, tasks, timers, clientFullSyncStatus, tables, uploads, step>>
  /\ UNCHANGED <<proc, pools, poolObjs, poolCalls, handed, job, dbTables>>
  /\ UNCHANGED <<licenseVars, dispatchVars, uploadVars, callVars>>



\* ------------------------------------------------- table maintenance

\* const tablesToClear of clear_database_tables.
tablesToClear ==
  <<"SalesDetail", "StockItems", "Sales", "MenuItem", "SubMenuLinkDetail",
    "PaymentReceived", "Payment">>

\* const tablesToDrop of force_sync_request.
tablesToDrop == <<"SalesDetail", "StockItems">>

\* Whether the identifier machineName is bound where the force_sync_request
\* handler logs it: the handler destructures only action from its payload
\* and no enclosing scope declares the name.
machineNameBound == FALSE

\* A maintenance handler that has finished with these events emitted.
JobDone(j, emits) == [j EXCEPT !.pc = "done", !.emits = emits]

\* The handler of clear_database_tables up to its transaction: the
\* identification check, the database lookup, dbManager.getConnection() and
\* beginTransaction. A connection that an earlier run released with foreign
\* key checks off may be the one the pool hands out.
ClearStart(identified, database, connOk, beginOk) ==
  /\ proc = "running"
  /\ IF job = NoRet THEN TRUE ELSE job.pc = "done"
  /\ \E fk \in (IF job # NoRet /\ job.released = 1 /\ ~job.fk THEN BOOLEAN ELSE {TRUE}) :
       LET j == [op |-> "clear", pc |-> "tables", identified |-> identified,
                 database |-> database, idx |-> 1, fk |-> fk, conn |-> FALSE,
                 released |-> 0, failed |-> {}, emits |-> <<>>]
           refused == <<UpEmit("clear_database_response", FALSE)>>
       IN job' = IF ~identified \/ database = Null \/ ~connOk THEN JobDone(j, refused)
                 ELSE IF ~beginOk
                 THEN JobDone([j EXCEPT !.conn = TRUE, !.released = 1], refused)
                 ELSE [j EXCEPT !.conn = TRUE]
  /\ UNCHANGED <<proc, pools, poolObjs, poolCalls, handed, syncCalls, syncRet, dbTables>>
  /\ UNCHANGED <<licenseVars, sessionVars, dispatchVars, uploadVars, callVars>>

\* One iteration of the loop over tablesToClear: the existence query, SET
\* FOREIGN_KEY_CHECKS = 0, DROP TABLE IF EXISTS and SET FOREIGN_KEY_CHECKS = 1,
\* any of which can fail; the catch of the iteration logs the failure and the
\* loop goes on.
ClearTable(outcome) ==
  /\ job # NoRet
  /\ job.op = "clear"
  /\ job.pc = "tables"
  /\ LET t == tablesToClear[job.idx]
         exists == outcome # "check-failed" /\ t \in dbTables
         dropped == exists /\ outcome \in {"set1-failed", "ok"}
         fk == IF exists /\ outcome \in {"drop-failed", "set1-failed"} THEN FALSE
               ELSE IF exists /\ outcome = "ok" THEN TRUE
               ELSE job.fk
     IN /\ dbTables' = IF dropped THEN dbTables \ {t} ELSE dbTables
        /\ job' = [job EXCEPT !.idx = @ + 1, !.fk = fk,
                              !.failed = IF (t \in dbTables) /\ ~dropped THEN @ \cup {t} ELSE @,
                              !.pc = IF job.idx = Len(tablesToClear) THEN "commit" ELSE "tables"]
  /\ UNCHANGED <<proc, pools, poolObjs, poolCalls, handed, syncCalls, syncRet>>
  /\ UNCHANGED <<licenseVars, sessionVars, dispatchVars, uploadVars, callVars>>

\* The end of clear_database_tables: commit and the success response, or the
\* rollback and the failure response of the outer catch; the finally block
\* releases the connection on both paths. DROP TABLE is not undone by the
\* rollback.
ClearCommit(commitOk) ==
  /\ job # NoRet
  /\ job.op = "clear"
  /\ job.pc = "commit"
  /\ job' = JobDone([job EXCEPT !.released = @ + 1],
                    <<UpEmit("clear_database_response", commitOk)>>)
  /\ UNCHANGED <<proc, pools, poolObjs, poolCalls, handed, syncCalls, syncRet, dbTables>>
  /\ UNCHANGED <<licenseVars, sessionVars, dispatchVars, uploadVars, callVars>>

\* The handler of force_sync_request up to its loop: the identification
\* check, the action test and the database lookup.
ForceStart(action, identified, database) ==
  /\ proc = "running"
  /\ IF job = NoRet THEN TRUE ELSE job.pc = "done"
  /\ LET j == [op |-> "force", pc |-> "tables", identified |-> identified,
               database |-> database, idx |-> 1, fk |-> TRUE, conn |-> FALSE,
               released |-> 0, failed |-> {}, emits |-> <<>>, action |-> action]
     IN job' = IF ~identified THEN JobDone(j, <<UpEmit("force_sync_error", FALSE)>>)
               ELSE IF action # "drop_all_tables"
               THEN JobDone(j, <<UpEmit("force_sync_response", FALSE)>>)
               ELSE IF database = Null THEN JobDone(j, <<UpEmit("force_sync_error", FALSE)>>)
               ELSE j
  /\ UNCHANGED <<proc, pools, poolObjs, poolCalls, handed, syncCalls, syncRet, dbTables>>
  /\ UNCHANGED <<licenseVars, sessionVars, dispatchVars, uploadVars, callVars>>

\* One iteration of the loop over tablesToDrop: tableExists, DROP TABLE and
\* the log line that names machineName. The log line of the try block and
\* the one of its catch both evaluate the identifier; when it is unbound the
\* ReferenceError leaves the loop for the outer catch, which replies
\* force_sync_response with success false. After the last table the handler
\* replies success true.
ForceTable(existsOk, dropOk) ==
  /\ job # NoRet
  /\ job.op = "force"
  /\ job.pc = "tables"
  /\ LET t == tablesToDrop[job.idx]
         dropped == existsOk /\ t \in dbTables /\ dropOk
     IN /\ dbTables' = IF dropped THEN dbTables \ {t} ELSE dbTables
        /\ job' = IF ~machineNameBound
                  THEN JobDone(job, <<UpEmit("force_sync_response", FALSE)>>)
                  ELSE IF job.idx = Len(tablesToDrop)
                  THEN JobDone(job, <<UpEmit("force_sync_response", TRUE)>>)
                  ELSE [job EXCEPT !.idx = @ + 1,
                                   !.failed = IF (t \in dbTables) /\ ~dropped THEN @ \cup {t} ELSE @]
  /\ UNCHANGED <<proc, pools, poolObjs, poolCalls, handed, syncCalls, syncRet>>
  /\ UNCHANGED <<licenseVars, sessionVars, dispatchVars, uploadVars, callVars>>



\* ------------------------------------------------- events without a payload

\* socket.on('csv_bulk_upload_start') for an event sent with no payload: the
\* handler is synchronous and destructures its argument outside any try, so
\* the TypeError reaches process.on('uncaughtException'), which logs it and
\* calls process.exit(1); every connection of the process goes down with it.
NilStart(s) ==
  /\ proc = "running"
  /\ upSess[s].state = "open"
  /\ proc' = "exit1"
  /\ upSess' = [u \in Sessions |->
                  IF upSess[u].state = "open" THEN [upSess[u] EXCEPT !.state = "closed"]
                  ELSE upSess[u]]
  /\ upStep' = UpStep(s, "uncaught", 0, <<>>, 0, 0, <<>>, TRUE)
  /\ UNCHANGED <<csvChunkStorage, accs, upTasks, disk, chunkMessages>>
  /\ UNCHANGED <<pools, poolObjs, poolCalls, handed, syncCalls, syncRet, job, dbTables>>
  /\ UNCHANGED <<licenseVars, sessionVars, dispatchVars, callVars>>

\* socket.on('csv_bulk_upload_chunk') for an event sent with no payload: the
\* handler is async, so the TypeError of the destructuring rejects its
\* promise, and process.on('unhandledRejection') logs the rejection.
NilChunk(s) ==
  /\ proc = "running"
  /\ upSess[s].state = "open"
  /\ upStep' = UpStep(s, "rejected", 0, <<>>, 0, 0, <<>>, TRUE)
  /\ UNCHANGED <<upSess, csvChunkStorage, accs, upTasks, disk, chunkMessages>>
  /\ UNCHANGED <<licenseVars, sessionVars, dispatchVars, callVars, hostVars>>


LicenseInit ==
  /\ phase = "constructed"
  /\ connectionPool = Null
  /\ now = 0
  /\ licenseCall = NoCall

SessionIdle ==
  /\ sock = [s \in Sockets |-> NewSocket]
  /\ tasks = [s \in Sockets |-> <<>>]
  /\ timers = [s \in Sockets |-> {}]
  /\ clientFullSyncStatus = {}
  /\ processingQueue = {}
  /\ tables = InitialTables
  /\ uploads = {}
  /\ step = NoStep

\* No row operation was received and the translator was not called.
DispatchIdle ==
  /\ rowTable = [tableName |-> "Other", businessType |-> Undef, keys |-> {}]
  /\ rowStore = <<>>
  /\ rowOps = <<>>
  /\ rowLog = <<>>
  /\ ddlCall = NoDdlCall

\* No upload session exists and no function was applied on its own.
UploadIdle ==
  /\ upSess = [s \in Sessions |-> [state |-> "none", storeId |-> Undef, appId |-> Undef]]
  /\ csvChunkStorage = [s \in Sessions |-> NoEntries]
  /\ accs = <<>>
  /\ upTasks = [s \in Sessions |-> <<>>]
  /\ disk = NoEntries
  /\ upStep = NoUpStep
  /\ chunkMessages = 0

CallIdle ==
  /\ arg = NoArg
  /\ ret = NoRet


\* The state of the process, the database manager and the sync service
\* after the modules are loaded, with no handler in flight.
HostIdle ==
  /\ proc = "running"
  /\ pools = NoEntries
  /\ poolObjs = <<>>
  /\ poolCalls = <<>>
  /\ handed = {}
  /\ syncCalls = <<>>
  /\ syncRet = NoRet
  /\ job = NoRet
  /\ dbTables = {}


SessionInit ==
  LicenseInit /\ SessionIdle /\ DispatchIdle /\ UploadIdle /\ CallIdle /\ HostIdle

LicenseNext == Listen \/ Shutdown \/ Tick \/ CallValidate \/ CallDatabaseFor

LicenseSpec == SessionInit /\ [][LicenseNext]_vars

SessionNext ==
  \/ Listen
  \/ Tick
  \/ \E s \in Sockets :
       \/ Connect(s)
       \/ ClientDisconnect(s)
       \/ \E d \in IdentifyPayloads : IdentifyRecv(s, d)
       \/ \E i \in 1..MaxInFlight : IdentifyResume(s, i)
       \/ TimerFire(s)
       \/ Ping(s)

SessionSpec == SessionInit /\ [][SessionNext]_vars

\* The identify payloads of the sync specification: one tenant, with and
\* without the license gate, and an identify without credentials.
SyncIdentifyPayloads ==
  { [NoFields EXCEPT !.storeId = "s1", !.appId = "A", !.serviceType = sv] :
      sv \in {ADVANCED, "legacy"} }
  \cup {[NoFields EXCEPT !.serviceType = "legacy"]}

SyncNext ==
  \/ Listen
  \/ \E s \in Sockets :
       \/ Connect(s)
       \/ ClientDisconnect(s)
       \/ \E d \in SyncIdentifyPayloads : IdentifyRecv(s, d)
       \/ \E d \in SyncDataPayloads : SyncDataRecv(s, d)
       \/ \E d \in DdlPayloads : DdlRecv(s, d)
       \/ \E d \in CsvPayloads : CsvRecv(s, d)
       \/ \E d \in BatchPayloads : BatchRecv(s, d)
       \/ \E d \in SchemaPayloads : SchemaRecv(s, d)
       \/ \E d \in FullSyncPayloads : FullSyncRecv(s, d)
       \/ \E i \in 1..MaxInFlight :
            \/ IdentifyResume(s, i)
            \/ SyncDataResume(s, i)
            \/ DdlResume(s, i)
            \/ CsvResume(s, i)
            \/ BatchResume(s, i)
            \/ SchemaResume(s, i)
            \/ FullSyncResume(s, i)
       \/ TimerFire(s)
       \/ Ping(s)

SyncSpec == SessionInit /\ [][SyncNext]_vars

\* Timers fire and a license lookup returns: the event loop runs every
\* callback that is ready.
FairSessionSpec ==
  /\ SessionSpec
  /\ \A s \in Sockets : WF_vars(TimerFire(s))
  /\ \A s \in Sockets : WF_vars(\E i \in 1..MaxInFlight : IdentifyResume(s, i))

\* The DDL path of a connection: the server starts, a peer connects and sends
\* sync_ddl_operation events.
DdlNext ==
  \/ Listen
  \/ \E s \in Sockets :
       \/ Connect(s)
       \/ ClientDisconnect(s)
       \/ \E d \in DdlCommandPayloads : DdlRecv(s, d)
       \/ \E i \in 1..MaxInFlight : DdlResume(s, i)

DdlSpec == SessionInit /\ [][DdlNext]_vars

\* The server is listening and the license service is initialised.
Running ==
  /\ phase = "listening"
  /\ connectionPool = "pool"
  /\ now = 0
  /\ licenseCall = NoCall

\* A peer is connected and no handler is running.
SessionOpen ==
  /\ sock = [s \in Sockets |-> [NewSocket EXCEPT !.state = "open"]]
  /\ tasks = [s \in Sockets |-> <<>>]
  /\ timers = [s \in Sockets |-> {}]
  /\ clientFullSyncStatus = {}
  /\ processingQueue = {}
  /\ tables = InitialTables
  /\ uploads = {}
  /\ step = NoStep

\* A payload object with every key column.
FullObj == Obj([c \in KeyColumnNames |-> "1"], NoKeys)

\* A row that has every key column.
SeedRow == [c \in KeyColumnNames \cup {"Note"} |-> IF c = "Note" THEN "a" ELSE "1"]

\* The statement specification: one table of any name under any business
\* type, created by createTableWithSchema from a schema without primary-key
\* columns, holding one row.
StatementInit ==
  /\ Running
  /\ SessionOpen
  /\ \E t \in TableNames, b \in BusinessTypes :
       rowTable = [tableName |-> t, businessType |-> b,
                   keys |-> createTableWithSchema(t, {}, b)]
  /\ rowStore = <<SeedRow>>
  /\ rowOps = <<>>
  /\ rowLog = <<>>
  /\ ddlCall = NoDdlCall
  /\ UploadIdle
  /\ CallIdle
  /\ HostIdle

\* sync_data received under the limits of the statement specification.
StatementRecv(d) ==
  /\ d \in StatementPayloads(rowTable.tableName)
  /\ RowRecv(d, MaxStatements, MaxStatements)

AllStatementPayloads == UNION { StatementPayloads(t) : t \in TableNames }

StatementNext ==
  \/ \E d \in AllStatementPayloads : StatementRecv(d)
  \/ \E i \in 1..MaxStatements : RowLookup(i)
  \/ \E i \in 1..MaxStatements : RowExecute(i)

StatementSpec == StatementInit /\ [][StatementNext]_vars

\* The tables of the row specification, with their business type.
RowTables == {<<"Sales", "retail">>, <<"SalesDetail", "retail">>, <<"MenuItem", "hospitality">>}

\* The key columns of the branch of the table.
RowKeyList == updateWhere(rowTable.tableName, rowTable.businessType, FullObj).fields

\* The row specification: an empty table created by createTableWithSchema,
\* from a schema with or without primary-key columns.
RowInit ==
  /\ Running
  /\ SessionOpen
  /\ \E tb \in RowTables :
       \E pk \in {{}, Range(updateWhere(tb[1], tb[2], FullObj).fields)} :
          rowTable = [tableName |-> tb[1], businessType |-> tb[2],
                      keys |-> createTableWithSchema(tb[1], pk, tb[2])]
  /\ rowStore = <<>>
  /\ rowOps = <<>>
  /\ rowLog = <<>>
  /\ ddlCall = NoDdlCall
  /\ UploadIdle
  /\ CallIdle
  /\ HostIdle

\* sync_data received under the limits of the row specification.
OrderedRecv(d) ==
  /\ d \in RowPayloads(RowKeyList)
  /\ RowRecv(d, MaxRowOps, MaxRowsInFlight)

AllRowPayloads ==
  UNION { RowPayloads(updateWhere(tb[1], tb[2], FullObj).fields) : tb \in RowTables }

RowNext ==
  \/ \E d \in AllRowPayloads : OrderedRecv(d)
  \/ \E i \in 1..MaxRowsInFlight : RowLookup(i)
  \/ \E i \in 1..MaxRowsInFlight : RowExecute(i)

RowSpec == RowInit /\ [][RowNext]_vars

\* ------------------------------------------------------------------ claims

\* The upload specification: the server is running, peers connect, upload
\* files in chunks and disconnect; the imports run from their timers.
UploadInit ==
  /\ Running
  /\ SessionIdle
  /\ DispatchIdle
  /\ UploadIdle
  /\ CallIdle
  /\ HostIdle

\* The events of the upload specification: one session.
SoloStart(d) == d \in StartPayloads /\ UploadStart("u1", d, MaxUploads)
SoloChunk(d) == d \in SoloChunkPayloads /\ UploadChunk("u1", d, MaxChunkMessages)

UploadNext ==
  \/ UpConnect("u1")
  \/ UpDisconnect("u1")
  \/ \E d \in StartPayloads : SoloStart(d)
  \/ \E d \in ChunkPayloads : SoloChunk(d)
  \/ \E i \in 1..MaxChunkMessages : UploadWrite("u1", i)
  \/ \E i \in 1..MaxChunkMessages : UploadEnd("u1", i)
  \/ \E i \in 1..MaxChunkMessages : UploadVerify("u1", i)
  \/ \E i \in 1..MaxChunkMessages : ImportStart("u1", i)
  \/ \E i \in 1..MaxChunkMessages : ImportLoad("u1", i)
  \/ \E i \in 1..MaxChunkMessages : ImportCleanup("u1", i)

UploadSpec == UploadInit /\ [][UploadNext]_vars

\* The shared-directory specification: two sessions are connected and each
\* uploads a file under the same name.
SharedInit ==
  /\ Running
  /\ SessionIdle
  /\ DispatchIdle
  /\ upSess = [s \in Sessions |-> [state |-> "open", storeId |-> SessionTenant[s][1],
                                    appId |-> SessionTenant[s][2]]]
  /\ csvChunkStorage = [s \in Sessions |-> NoEntries]
  /\ accs = <<>>
  /\ upTasks = [s \in Sessions |-> <<>>]
  /\ disk = NoEntries
  /\ upStep = NoUpStep
  /\ chunkMessages = 0
  /\ CallIdle
  /\ HostIdle

\* The events of the shared-directory specification: a session starts one
\* upload and sends its one chunk.
SharedStart(s, d) ==
  /\ d \in SharedStartPayloads
  /\ csvChunkStorage[s] = NoEntries
  /\ \A a \in 1..Len(accs) : accs[a].appId # upSess[s].appId
  /\ UploadStart(s, d, MaxSharedMessages)
SharedChunk(s, d) ==
  /\ d \in SharedChunkPayloads(s)
  /\ UploadChunk(s, d, MaxSharedMessages)

SharedNext ==
  \/ \E s \in Sessions, d \in StartPayloads : SharedStart(s, d)
  \/ \E s \in Sessions, d \in ChunkPayloads : SharedChunk(s, d)
  \/ \E s \in Sessions, i \in 1..MaxSharedMessages : UploadWrite(s, i)
  \/ \E s \in Sessions, i \in 1..MaxSharedMessages : UploadEnd(s, i)
  \/ \E s \in Sessions, i \in 1..MaxSharedMessages : UploadVerify(s, i)
  \/ \E s \in Sessions, i \in 1..MaxSharedMessages : ImportStart(s, i)
  \/ \E s \in Sessions, i \in 1..MaxSharedMessages : ImportLoad(s, i)
  \/ \E s \in Sessions, i \in 1..MaxSharedMessages : ImportCleanup(s, i)

SharedSpec == SharedInit /\ [][SharedNext]_vars

\* The specifications of the functions applied on their own: the input is
\* drawn at the start and the function is applied to it.
MappingInit ==
  /\ Running /\ SessionIdle /\ DispatchIdle /\ UploadIdle /\ HostIdle
  /\ arg \in MappingInputs
  /\ ret = NoRet

MappingSpec == MappingInit /\ [][BuildMappings]_vars

ColumnInit ==
  /\ Running /\ SessionIdle /\ DispatchIdle /\ UploadIdle /\ HostIdle
  /\ arg \in ColumnInputs
  /\ ret = NoRet

ColumnSpec == ColumnInit /\ [][RenderColumn]_vars

ImportInit ==
  /\ Running /\ SessionIdle /\ DispatchIdle /\ UploadIdle /\ HostIdle
  /\ arg \in ImportInputs
  /\ ret = NoRet

ImportSpec == ImportInit /\ [][RunImport]_vars

\* The legacy specification: a table created by createTableWithSchema from
\* a schema with primary-key columns, empty at the start.
LegacyInit ==
  /\ Running /\ SessionIdle /\ UploadIdle /\ CallIdle /\ HostIdle
  /\ \E t \in LegacyTables :
       rowTable = [tableName |-> t[1], businessType |-> t[2],
                   keys |-> createTableWithSchema(t[1], t[3], t[2])]
  /\ rowStore = <<>>
  /\ rowOps = <<>>
  /\ rowLog = <<>>
  /\ ddlCall = NoDdlCall

LegacyNext == \E data \in AllLegacyRows, isFullSync \in BOOLEAN : LegacyInsert(data, isFullSync)

LegacySpec == LegacyInit /\ [][LegacyNext]_vars

\* The pool specification: handlers call getPool while the process runs
\* and while it shuts down.
PoolInit == Running /\ SessionIdle /\ DispatchIdle /\ UploadIdle /\ CallIdle /\ HostIdle

PoolNext ==
  \/ \E database \in Databases : GetPoolCall(database)
  \/ \E i \in 1..MaxPoolCalls : GetPoolResume(i)
  \/ Signal
  \/ \E database \in Databases : CloseAllStep(database)
  \/ CloseAllDone
  \/ Exit

PoolSpec == PoolInit /\ [][PoolNext]_vars

\* The queue specification: legacy requests reach processSyncData while
\* earlier ones are suspended.
QueueInit ==
  Running /\ SessionOpen /\ DispatchIdle /\ UploadIdle /\ CallIdle /\ HostIdle

QueueNext ==
  \/ \E d \in { [NoFields EXCEPT !.MachineName = m, !.SyncId = id, !.operation = o] :
                  m \in {"m1", "m2", "mX", Undef}, id \in SyncIds,
                  o \in {"INSERT", "UPDATE", "DELETE", "SCHEMA_CHANGE", "BOGUS"} } : ProcessSyncCall(d)
  \/ \E i \in 1..MaxSyncCalls : ProcessSyncResume(i)

QueueSpec == QueueInit /\ [][QueueNext]_vars

\* The maintenance specification: one session sends clear_database_tables and
\* force_sync_request, one after the other, against a tenant database that
\* holds any of the listed tables.
MaintenanceInit ==
  /\ Running /\ SessionOpen /\ DispatchIdle /\ UploadIdle /\ CallIdle
  /\ proc = "running"
  /\ pools = NoEntries
  /\ poolObjs = <<>>
  /\ poolCalls = <<>>
  /\ handed = {}
  /\ syncCalls = <<>>
  /\ syncRet = NoRet
  /\ job = NoRet
  /\ dbTables \in SUBSET Range(tablesToClear)

MaintenanceNext ==
  \/ \E identified, connOk, beginOk \in BOOLEAN, database \in {Null, "A"} :
       ClearStart(identified, database, connOk, beginOk)
  \/ \E outcome \in {"check-failed", "set0-failed", "drop-failed", "set1-failed", "ok"} :
       ClearTable(outcome)
  \/ \E commitOk \in BOOLEAN : ClearCommit(commitOk)
  \/ \E action \in {"drop_all_tables", "other"}, identified \in BOOLEAN, database \in {Null, "A"} :
       ForceStart(action, identified, database)
  \/ \E existsOk, dropOk \in BOOLEAN : ForceTable(existsOk, dropOk)

MaintenanceSpec == MaintenanceInit /\ [][MaintenanceNext]_vars

\* The payload specification: two sessions connect and send upload events
\* with and without a payload while the process runs.
PayloadInit ==
  Running /\ SessionIdle /\ DispatchIdle /\ UploadIdle /\ CallIdle /\ HostIdle

LiveConnect(s) == proc = "running" /\ UpConnect(s)
LiveDisconnect(s) == proc = "running" /\ UpDisconnect(s)
LiveStart(s, d) == proc = "running" /\ UploadStart(s, d, MaxUploads)
LiveChunk(s, d) == proc = "running" /\ UploadChunk(s, d, MaxChunkMessages)

PayloadNext ==
  \/ \E s \in Sessions : LiveConnect(s)
  \/ \E s \in Sessions : LiveDisconnect(s)
  \/ \E s \in Sessions, d \in StartPayloads : LiveStart(s, d)
  \/ \E s \in Sessions, d \in SoloChunkPayloads : LiveChunk(s, d)
  \/ \E s \in Sessions : NilStart(s)
  \/ \E s \in Sessions : NilChunk(s)

PayloadSpec == PayloadInit /\ [][PayloadNext]_vars






\* The last step completed an identify of connection s.
IdentifyDone(s) == step.ev = "identify" /\ step.sock = s /\ step.done

\* The events of the last step include one named ev.
Emitted(ev) == \E i \in 1..Len(step.emits) : step.emits[i].ev = ev

\* The last step completed an advanced identify of s whose tenant row exists
\* and whose expiry is not after the time of the check.
ExpiredIdentify(s) ==
  /\ IdentifyDone(s)
  /\ step.data.serviceType = ADVANCED
  /\ \E r \in SelectStore(step.data.storeId, step.data.appId) :
       r.AdvancedReportLicenseExpire <= step.at

\* C4: an advanced identify for a tenant row whose licenseExpire is not after
\* now emits license_expired with code 410 and no identified, leaves
\* storeId/appId as they were, does not disconnect in the handler, and the
\* socket is eventually disconnected, whatever else arrives meanwhile.
C4_LicenseExpiry ==
  /\ [](\A s \in Sockets : ExpiredIdentify(s) =>
          /\ step.emits = <<Emit("license_expired", 410, Undef, "false")>>
          /\ ~step.bound
          /\ ~step.disconnected
          /\ "disconnect" \in timers[s])
  /\ [][\A s \in Sockets : ExpiredIdentify(s)' =>
          /\ sock'[s].storeId = sock[s].storeId
          /\ sock'[s].appId = sock[s].appId]_vars
  /\ \A s \in Sockets : ExpiredIdentify(s) ~> (sock[s].state = "closed")

\* C4 witness: an expired license was rejected on a connection that is still
\* open and unidentified, with the disconnect timer pending.
C4_Witness ==
  \E s \in Sockets :
    /\ ExpiredIdentify(s)
    /\ Emitted("license_expired")
    /\ sock[s].state = "open"
    /\ ~Identified(sock[s])
    /\ "disconnect" \in timers[s]

\* C5 (as claimed): an identify whose payload lacks storeId, appId or
\* serviceType never emits identified and binds no tenant field.
C5_MissingFieldsRejected ==
  \A s \in Sockets :
    (/\ IdentifyDone(s)
     /\ (\/ step.data.nil
         \/ ~Truthy(step.data.storeId)
         \/ ~Truthy(step.data.appId)
         \/ ~Truthy(step.data.serviceType)))
    => (~step.bound /\ ~Emitted("identified"))

\* C6 (as claimed): when no stores row matches (storeId, appId) the server
\* emits license_error; license_expired is emitted only for a matching row
\* whose expiry has passed.
C6_InvalidIsLicenseError ==
  \A s \in Sockets :
    (/\ IdentifyDone(s)
     /\ step.data.serviceType = ADVANCED
     /\ Truthy(step.data.storeId)
     /\ Truthy(step.data.appId))
    => /\ (SelectStore(step.data.storeId, step.data.appId) = {}
             => Emitted("license_error") /\ ~Emitted("license_expired"))
       /\ (Emitted("license_expired")
             => \E r \in SelectStore(step.data.storeId, step.data.appId) :
                  r.AdvancedReportLicenseExpire <= step.at)

\* C7 (as claimed): on every identification failure the disconnect never
\* happens in the handler step that emits the error event.
C7_DisconnectAfterGrace ==
  \A s \in Sockets :
    (/\ step.ev = "identify"
     /\ step.sock = s
     /\ (Emitted("license_error") \/ Emitted("license_expired")
           \/ Emitted("identification_error")))
    => ~step.disconnected

\* The last license-service call was a validate for a pair with this row set.
ValidateCalled == licenseCall.op = "validate"

\* C8 (as claimed): validate returns valid=false, expired=true with an error
\* when no row matches; otherwise expired holds exactly when
\* licenseExpire <= now and valid = not expired.
C8_ValidateAsClaimed ==
  ValidateCalled =>
    LET r == licenseCall.result
        rows == SelectStore(licenseCall.storeId, licenseCall.appId)
    IN /\ (rows = {} => ~r.isValid /\ r.isExpired /\ r.error # Undef)
       /\ \A row \in rows :
            /\ r.isExpired <=> (row.AdvancedReportLicenseExpire <= licenseCall.at)
            /\ r.isValid <=> ~r.isExpired
       /\ r.isValid # r.isExpired

\* C8 (amended): validate returns valid=false, expired=true with an error
\* when no row matches or when the lookup itself fails; when the lookup
\* succeeds and a row matches, expired holds exactly when
\* licenseExpire <= now, valid = not expired, and there is no error; no
\* result has valid and expired both true or both false.
C8_Validate ==
  ValidateCalled =>
    LET r == licenseCall.result
        rows == SelectStore(licenseCall.storeId, licenseCall.appId)
    IN /\ (rows = {} \/ ~licenseCall.lookupOk
             => ~r.isValid /\ r.isExpired /\ r.error # Undef)
       /\ (licenseCall.lookupOk =>
             \A row \in rows :
               /\ r.isExpired <=> (row.AdvancedReportLicenseExpire <= licenseCall.at)
               /\ r.isValid <=> ~r.isExpired
               /\ r.error = Undef)
       /\ r.isValid # r.isExpired

\* C8 witness: a successful lookup of a row whose expiry equals the current
\* instant, reported expired.
C8_Witness ==
  /\ ValidateCalled
  /\ licenseCall.lookupOk
  /\ \E row \in SelectStore(licenseCall.storeId, licenseCall.appId) :
       row.AdvancedReportLicenseExpire = licenseCall.at
  /\ licenseCall.result.isExpired

\* C9 (as claimed): databaseFor returns appId if and only if the pair exists
\* in the tenant table, and null otherwise, in every state of the service.
C9_DatabaseForIffPairExists ==
  licenseCall.op = "databaseFor" =>
    LET rows == SelectStore(licenseCall.storeId, licenseCall.appId)
    IN /\ (licenseCall.result = licenseCall.appId <=> rows # {})
       /\ (rows = {} => licenseCall.result = Null)

\* The last step was a step of a handler of an incoming event.
HandlerStep == step.ev \notin {"none", "timer"}

\* C1 (as claimed): every statement executed for an event of a session that
\* identified as (S, A) runs against database A, whatever storeId/appId the
\* event's payload names.
C1_TenantIsolation ==
  (HandlerStep /\ Identified(sock[step.sock]))
    => step.stmts \subseteq {sock[step.sock].appId}

\* C2 (as claimed): an event other than identify received while storeId or
\* appId is not bound executes no target-store statement and writes no file
\* to the uploads directory.
C2_IdentificationGate ==
  (HandlerStep /\ step.ev # "identify" /\ ~step.idAtRecv)
    => (step.stmts = {} /\ step.files = {})

\* The events a session that has not completed identification may be sent.
AllowedUnidentified ==
  {"identified", "license_expired", "license_error", "identification_error",
   "pong", "ddl_sync_error", "table_schema_error", "full_data_sync_error"}

\* C3 (as claimed): a session that has not completed identification is sent
\* nothing but identified, an error variant or pong.
C3_UnidentifiedResponses ==
  (HandlerStep /\ ~Identified(sock[step.sock]))
    => \A i \in 1..Len(step.emits) : step.emits[i].ev \in AllowedUnidentified

\* The sync identifier a sync_data handler reads from its request: syncId on
\* the advanced path, SyncId on the legacy path.
RequestSyncId(d) ==
  IF Truthy(d.appId) /\ Truthy(d.storeId) THEN d.syncId ELSE d.SyncId

\* C10 (as claimed): when the handler of a sync_data received on a session
\* that is still connected has returned, it has emitted exactly one
\* sync_response, carrying the request's sync identifier.
C10_ExactlyOneSyncResponse ==
  (step.ev = "sync_data" /\ step.done /\ sock[step.sock].state = "open")
    => /\ Cardinality({i \in 1..Len(step.emits) : step.emits[i].ev = "sync_response"}) = 1
       /\ \A i \in 1..Len(step.emits) :
            step.emits[i].ev = "sync_response"
              => step.emits[i].syncId = RequestSyncId(step.data)

\* ---- claims about the row dispatcher

\* The responses in rowLog, and the response to row operation number n.
Responses == { e \in Range(rowLog) : e.what = "resp" }
ResponseTo(n) == CHOOSE e \in Responses : e.seq = n

\* Every received row operation was answered.
AllAnswered == rowOps = <<>> /\ \A n \in 1..ReceivedCount : \E e \in Responses : e.seq = n

\* C11: within one session the handler of event k emits its response before
\* the handler of event k+1 executes a statement or emits its response, so
\* the responses (each logged with its statement) appear in receive order.
C11_ReceiveOrder ==
  \A a, b \in DOMAIN rowLog :
     (a < b /\ rowLog[a].what = "resp" /\ rowLog[b].what = "resp")
        => rowLog[a].seq < rowLog[b].seq

\* The table after the statements of the first n row operations were
\* executed one after the other in receive order.
RECURSIVE SerialStore(_)
SerialStore(n) ==
  IF n = 0 THEN <<>>
  ELSE LET e == ResponseTo(n) IN
       IF e.stmt.ok THEN executeQuery(SerialStore(n - 1), rowTable.keys, e.stmt).store
       ELSE SerialStore(n - 1)

\* The same rows, each as often.
SameRows(p, q) ==
  /\ Len(p) = Len(q)
  /\ \A r \in Range(p) \cup Range(q) :
        Cardinality({ i \in DOMAIN p : p[i] = r }) = Cardinality({ i \in DOMAIN q : q[i] = r })

\* C12: row operations of one session on the same (table, primary key) are
\* applied in arrival order: once all of them are answered the table holds
\* what applying them one after the other in receive order produces.
C12_AppliedInArrivalOrder ==
  (AllAnswered /\ ReceivedCount >= 2) => SameRows(rowStore, SerialStore(ReceivedCount))

\* The primary-key policy table of the specification.
PolicyTables ==
  {"Sales", "SalesDetail", "StockItems", "MenuItem", "SubMenuLinkDetail",
   "PaymentReceived", "Payment"}
Policy(tableName, businessType) ==
  CASE tableName = "Sales" /\ businessType = "retail" -> {"InvoiceNo"}
    [] tableName = "Sales" /\ businessType = "hospitality" -> {"OrderNo"}
    [] tableName = "SalesDetail" /\ businessType = "retail" -> {"InvoiceNo", "StockId"}
    [] tableName = "SalesDetail" /\ businessType = "hospitality" -> {"OrderNo", "ItemCode"}
    [] tableName = "StockItems" /\ businessType = "retail" -> {"StockId"}
    [] tableName = "MenuItem" /\ businessType = "hospitality" -> {"ItemCode"}
    [] tableName = "SubMenuLinkDetail" /\ businessType = "hospitality" -> {"ItemCode"}
    [] tableName = "PaymentReceived" /\ businessType = "retail" -> {"InvoiceNo", "Id"}
    [] tableName = "PaymentReceived" /\ businessType = "hospitality" -> {"OrderNo", "Id"}
    [] tableName = "Payment" /\ businessType \in {"retail", "hospitality"} -> {"Payment"}
    [] OTHER -> {}

\* The UPDATE and DELETE statements that were handed to the target store.
KeyedStatements ==
  { e \in Responses : e.stmt.ok /\ e.stmt.kind \in {"UPDATE", "DELETE"} }

\* C13: for every entry of the policy table the WHERE columns of every UPDATE
\* and DELETE are exactly the entry, and only tables absent from the policy
\* table use the id fallback.
C13_WherePolicy ==
  \A e \in KeyedStatements :
     /\ rowTable.businessType # Undef
          => (Range(e.stmt.fields) = {"id"} => rowTable.tableName \notin PolicyTables)
     /\ Policy(rowTable.tableName, rowTable.businessType) # {}
          => Range(e.stmt.fields) = Policy(rowTable.tableName, rowTable.businessType)

\* C14: each WHERE value of an UPDATE is old_<PKcol> of the payload whenever
\* that key is present, whatever its value, and <PKcol> only when it is
\* absent; the SET list is exactly the payload keys without the old_ prefix.
C14_UpdateWhereValues ==
  \A e \in KeyedStatements :
     (e.stmt.kind = "UPDATE" /\ ~e.data.xml) =>
        /\ \A i \in 1..Len(e.stmt.fields) :
              e.stmt.values[i] =
                 IF Has(e.data.old, e.stmt.fields[i]) THEN e.data.old[e.stmt.fields[i]]
                 ELSE Get(e.data.new, e.stmt.fields[i])
        /\ DOMAIN e.stmt.set = DOMAIN e.data.new

\* The key columns the policy requires of a payload for the table.
Required ==
  IF rowTable.tableName \in PolicyTables
  THEN Policy(rowTable.tableName, rowTable.businessType)
  ELSE {"id"}

\* The payload lacks a required key column: in both forms for an UPDATE,
\* in the plain form for a DELETE.
LacksKey(d) ==
  \/ d.operation = "UPDATE" /\ \E c \in Required : ~Has(d.new, c) /\ ~Has(d.old, c)
  \/ d.operation = "DELETE" /\ \E c \in Required : ~Has(d.new, c)

\* C15: an UPDATE or DELETE whose payload lacks a required key column
\* executes no statement and is answered with success false, the session
\* stays connected, and no UPDATE or DELETE has an empty WHERE clause.
C15_MissingKeyRejected ==
  /\ \A e \in Responses :
        LacksKey(e.data) => (~e.stmt.ok /\ ~e.success /\ sock["k1"].state = "open")
  /\ \A e \in KeyedStatements : e.stmt.fields # <<>>

\* C16: applying the same INSERT twice leaves exactly one row for that
\* primary key in every table of the policy.
C16_InsertIdempotent ==
  (/\ AllAnswered
   /\ ReceivedCount >= 2
   /\ \A e \in Responses : e.data.operation = "INSERT" /\ e.success
   /\ \A e, f \in Responses : e.data = f.data)
  => Len(rowStore) = 1

\* C17: after INSERT x and then UPDATE x' with the same primary key the row
\* holds the value of x' for every column present in x', empty values
\* included, for a JSON payload and for the XML new/old envelope.
C17_UpdateOverwrites ==
  (/\ Len(rowLog) = 4
   /\ rowLog[2].what = "resp" /\ rowLog[2].success /\ rowLog[2].data.operation = "INSERT"
   /\ rowLog[4].what = "resp" /\ rowLog[4].success /\ rowLog[4].data.operation = "UPDATE")
  => \A i \in DOMAIN rowStore : \A c \in DOMAIN rowLog[4].data.new :
        rowStore[i][c] = rowLog[4].data.new[c]

\* ---- claims about the DDL path

\* The last step finished a sync_ddl_operation handler.
DdlDone == step.ev = "sync_ddl_operation" /\ step.done

\* The pieces of a command that are still in the source dialect.
Bracketed(q) == { i \in 1..Len(q) : q[i].k \in {"schema", "bracket", "brackettype"} }

\* C18: for DDL_ALTER_TABLE the common rewrites apply to the whole command:
\* no bracketed identifier is left in the output, and the ADD of [Note] to
\* [dbo].[Sales] becomes ALTER TABLE `Sales` ADD COLUMN `Note` VARCHAR(50)
\* CHARACTER SET utf8mb4 COLLATE utf8mb4_0900_ai_ci NULL.
C18_AlterRewritesIdentifiers ==
  (ddlCall.op = "convert" /\ ddlCall.operation = "DDL_ALTER_TABLE"
     /\ ~ddlCall.result.isNull)
  => /\ Bracketed(ddlCall.result.sql) = {}
     /\ ddlCall.sqlCommand = AddNote =>
          ddlCall.result.sql =
            <<Word("ALTER"), Word("TABLE"), Backtick("Sales"), Word("ADD"),
              Word("COLUMN"), Backtick("Note"), Type("VARCHAR", 50), Charset,
              Word("NULL")>>

\* The event the last step emitted is ddl_sync_success with skipped true.
SkippedSuccess ==
  /\ Len(step.emits) = 1
  /\ step.emits[1].ev = "ddl_sync_success"
  /\ step.emits[1].skipped

C20_SkippedOnlyForLockEscalation ==
  DdlDone =>
    /\ SkippedSuccess => step.data.sqlCommand = LockEscalation
    /\ step.data.sqlCommand \in {Undef, Empty, NotAString} =>
         (Len(step.emits) = 1 /\ step.emits[1].ev = "ddl_sync_error")

\* ---- claims about the chunked upload

\* The steps in which the chunk handler gave up a reassembly.
FailedSteps == {"mkdir-failed", "missing-chunk", "stream-failed", "verify-failed"}

\* The sessions whose map still holds the accumulator.
Holders(a) ==
  { s \in Sessions : \E k \in DOMAIN csvChunkStorage[s] : csvChunkStorage[s][k] = a }

\* C21: in every reachable state an accumulator stores at most expectedChunks
\* chunks and every stored index lies in [0, expectedChunks); a chunk message
\* with an index out of this range is not stored.
C21_ChunkBounds ==
  \A a \in 1..Len(accs) :
     /\ Size(accs[a].chunks) <= accs[a].totalChunks
     /\ \A i \in DOMAIN accs[a].chunks : 0 <= i /\ i < accs[a].totalChunks

\* The N chunks of the upload were each delivered exactly once: the indexes
\* chunks.set was called with are a permutation of 0..N-1.
Delivered(a) ==
  /\ Len(accs[a].arrivals) = accs[a].totalChunks
  /\ Range(accs[a].arrivals) = 0..(accs[a].totalChunks - 1)

\* The source file of an upload: its decoded chunks in ascending index order.
RECURSIVE SourceBytes(_, _)
SourceBytes(a, n) ==
  IF n = 0 THEN <<>>
  ELSE SourceBytes(a, n - 1) \o Decode(accs[a].chunks[n - 1])

\* The write loop of a delivered upload has run (to its end or into a throw).
ReassemblyRan ==
  /\ upStep.what \in {"missing-chunk", "written"}
  /\ Delivered(upStep.acc)
  /\ upStep.total = accs[upStep.acc].totalChunks

\* C22 as stated: for an upload of N chunks each delivered exactly once, in
\* any order, the file written equals the decoded chunks in ascending order.
C22_ReassemblyAsClaimed ==
  ReassemblyRan =>
    /\ upStep.what = "written"
    /\ upStep.bytes = SourceBytes(upStep.acc, accs[upStep.acc].totalChunks)

\* C23: reassembly starts exactly when the number of distinct received
\* indexes equals the expectedChunks declared by csv_bulk_upload_start, not a
\* count carried by a chunk message; the accumulator is destroyed before the
\* import runs.
C23_ReassemblyTrigger ==
  /\ upStep.what \in {"stored", "reassemble"} =>
       (upStep.what = "reassemble" <=> upStep.size = accs[upStep.acc].totalChunks)
  /\ upStep.what = "import" => Holders(upStep.acc) = {}

\* C24: when reassembly fails (a missing chunk or a disk error) the upload is
\* aborted: csv_bulk_upload_response with success false is emitted and its
\* accumulator is removed.
C24_FailedUploadAborted ==
  upStep.what \in FailedSteps =>
    /\ upStep.emits = <<UpEmit("csv_bulk_upload_response", FALSE)>>
    /\ Holders(upStep.acc) = {}

\* C25: after the disconnect of a session its accumulators are dropped and
\* nothing is emitted to its socket any more, neither by a handler in flight
\* nor by an import timer or a progress callback.
C25_NothingAfterDisconnect ==
  /\ \A s \in Sessions : upSess[s].state = "closed" => csvChunkStorage[s] = NoEntries
  /\ upStep.emits # <<>> => ~upStep.closed

\* C26: uploaded files are stored per session: when two sessions upload the
\* same fileName at overlapping times, the import of a session whose chunks
\* were each delivered once loads exactly the bytes that session uploaded, and
\* the cleanup of an import removes no file another session has written and
\* not yet imported.
C26_PerSessionFiles ==
  /\ (upStep.what = "loaded" /\ Delivered(upStep.acc)) =>
       upStep.bytes = SourceBytes(upStep.acc, accs[upStep.acc].totalChunks)
  /\ upStep.what = "imported" =>
       \A s \in Sessions \ {upStep.sess} : \A i \in 1..Len(upTasks[s]) :
          upTasks[s][i].pc \notin {"verify", "timer", "load"}

\* ---- claims about the import strategies

\* importCSVFileToMySQL has returned or thrown for a file that exists.
ImportRan == ret # NoRet /\ ret.op = "importCSVFileToMySQL" /\ arg.fileExists

\* The server advertises local-infile enabled.
Advertised == arg.env.localInfile \in {"ON", "1"}

\* The server names a secure file directory.
SecureAvailable == arg.env.secureFilePriv \notin {Undef, "NULL", Empty}

\* C27: LOAD DATA LOCAL INFILE is executed only when the server advertises
\* local-infile enabled, and is executed when it does and the probes and the
\* column lookup succeed; LOAD DATA INFILE from the secure directory is
\* attempted only when local-infile is not enabled and a secure directory is
\* configured; with neither available the import fails; at most one load
\* statement is executed per import.
C27_OneLoadStrategy ==
  ImportRan =>
    LET loads == ret.result.loads
    IN /\ LoadLocal \in Range(loads) => Advertised
       /\ (Advertised /\ arg.env.probes = 3 /\ arg.env.columnsOk)
            => LoadLocal \in Range(loads)
       /\ LoadSecure \in Range(loads) => (~Advertised /\ SecureAvailable)
       /\ (~Advertised /\ ~SecureAvailable) => ~ret.result.ok
       /\ Len(loads) <= 1

\* ---- claims about the generated LOAD statement

\* The table columns the spec protects.
ProtectedNames == {"StockId", "ItemCode"}

\* The branches that turn a field into a number.
NumericBranches == {BranchBoolean, BranchInteger, BranchDecimal}

\* C28: the coercion of a table column named StockId or ItemCode has neither
\* the boolean-word branch nor the integer and decimal cast branches, so the
\* all-digit value 007 reaches the text branch and is stored as 007; the
\* coercion of every other column has all of these branches.
C28_ProtectedColumns ==
  (ret # NoRet /\ ret.op = "buildColumnMappings") =>
    \A i \in 1..Len(ret.mappings.setStatements) :
       LET st == ret.mappings.setStatements[i] IN
       IF st.column \in ProtectedNames
       THEN /\ Range(st.branches) \cap NumericBranches = {}
            /\ arg.fields[i] = "007" => ret.stored[i] = [type |-> "text", text |-> "007"]
       ELSE NumericBranches \subseteq Range(st.branches)

\* A row with 007 under StockId and under another column has been loaded:
\* the first is stored as the text 007, the second as a number.
C28_Witness ==
  /\ ret # NoRet /\ ret.op = "buildColumnMappings"
  /\ Len(ret.mappings.setStatements) = 2
  /\ ret.mappings.setStatements[1].column = "StockId"
  /\ ret.mappings.setStatements[2].column = "stockid"
  /\ arg.fields = <<"007", "007">>
  /\ ret.stored[1] = [type |-> "text", text |-> "007"]
  /\ ret.stored[2].type = "number"

\* ---- claims about the legacy insert path

\* The last call of handleInsert met a row with the key of its row, in an
\* existing table.
LegacyDuplicate ==
  /\ rowLog # <<>>
  /\ LET e == rowLog[Len(rowLog)] IN
     /\ e.what = "handleInsert"
     /\ e.tableExists
     /\ \E i \in 1..Len(e.before) : \E K \in rowTable.keys :
          K \subseteq DOMAIN e.data /\ \A c \in K : Get(e.before[i], c) = e.data[c]

\* C29: a duplicate-key error on INSERT becomes, outside full-sync mode, an
\* UPDATE of the existing row (the row then carries the Note of the incoming
\* row), and in full-sync mode a SKIP: zero rows affected, the table
\* unchanged, no error.
C29_DuplicateInsert ==
  LegacyDuplicate =>
    LET e == rowLog[Len(rowLog)] IN
    IF e.isFullSync
    THEN /\ ~e.result.threw
         /\ e.result.operation = "SKIP"
         /\ e.result.rowsAffected = 0
         /\ e.result.store = e.before
    ELSE /\ ~e.result.threw
         /\ e.result.operation = "UPDATE"
         /\ Len(e.result.store) = Len(e.before)
         /\ \A i \in 1..Len(e.before) :
              (\E K \in rowTable.keys : \A c \in K : Get(e.before[i], c) = e.data[c])
                => Get(e.result.store[i], "Note") = e.data.Note

\* ---- claims about created tables

\* C30: a column is rendered NOT NULL exactly when the source column is
\* non-nullable and it has a rendered default, is an identity column or is
\* a primary-key column; every other column is rendered NULL DEFAULT NULL.
C30_Nullability ==
  (ret # NoRet /\ ret.op = "columnDefinition") =>
    LET c == arg.column
        enforced == /\ c.IS_NULLABLE = "NO"
                    /\ \/ ret.colDef.default # Null
                       \/ c.IS_IDENTITY = 1
                       \/ c.COLUMN_KEY = "PRI"
    IN ret.colDef.nullability = IF enforced THEN "NOT NULL" ELSE "NULL DEFAULT NULL"

\* A non-nullable source column without default, identity or key has been
\* rendered, and it is nullable.
C30_Witness ==
  /\ ret # NoRet /\ ret.op = "columnDefinition"
  /\ arg.column.IS_NULLABLE = "NO"
  /\ arg.column.COLUMN_DEFAULT = Null
  /\ arg.column.IS_IDENTITY = 0
  /\ arg.column.COLUMN_KEY = Empty
  /\ ret.colDef.nullability = "NULL DEFAULT NULL"

\* ---- claims settled on the existing specifications

\* The last step of a handler for event ev emitted sync_response with
\* success true.
RespondedTrue(ev) ==
  /\ step.ev = ev
  /\ \E i \in 1..Len(step.emits) :
       step.emits[i].ev = "sync_response" /\ step.emits[i].success = "true"

\* C36: a legacy sync_data that meets a missing table is answered with
\* request_table_schema and no sync_response; table_schema_response answers
\* with request_full_data_sync only together with the creation of the table;
\* and full_data_sync_response emits sync_response with success true only on
\* a batch flagged isLastBatch whose row went into an existing table.
C36_MissingTableHandshake ==
  /\ (step.ev = "sync_data" /\ Emitted("request_table_schema")) =>
       ~Emitted("sync_response")
  /\ (step.ev = "table_schema_response" /\ Emitted("request_full_data_sync")) =>
       step.stmts # {} /\ step.stmts \subseteq tables
  /\ RespondedTrue("full_data_sync_response") =>
       step.data.isLastBatch /\ step.stmts # {} /\ step.stmts \subseteq tables

\* C37: for each chunked upload reassembly and import are triggered at most
\* once: no two suspended handlers or timers hold the same accumulator.
C37_ReassemblyOnce ==
  \A s1 \in Sessions, s2 \in Sessions :
    \A i \in 1..Len(upTasks[s1]), j \in 1..Len(upTasks[s2]) :
       upTasks[s1][i].acc = upTasks[s2][j].acc => (s1 = s2 /\ i = j)

\* C40: every rendered column definition holds at most one DEFAULT clause:
\* the clause of a rendered default and the one of NULL DEFAULT NULL never
\* occur together.
C40_OneDefaultClause ==
  (ret # NoRet /\ ret.op = "columnDefinition") =>
    ~(ret.colDef.default # Null /\ ret.colDef.nullability = "NULL DEFAULT NULL")

\* ---- claims about the connection pools and the shutdown

\* The pools whose connection test passed and that have not been ended.
LivePools == { p \in 1..Len(poolObjs) : poolObjs[p].status = "live" /\ ~poolObjs[p].ended }

\* C31: while the process runs, concurrent getPool calls on a database make
\* one pool for it: no two pools whose connection test passed exist for one
\* database, all callers of a database received the same pool, and every
\* such pool is the one the map holds for its database.
C31_OnePoolPerDatabase ==
  proc = "running" =>
    /\ \A p \in LivePools, q \in LivePools :
         poolObjs[p].database = poolObjs[q].database => p = q
    /\ \A h \in handed, k \in handed : h[1] = k[1] => h[2] = k[2]
    /\ \A p \in LivePools :
         poolObjs[p].database \in DOMAIN pools /\ pools[poolObjs[p].database] = p

\* C34: once closeAll has cleared the pools no handler is suspended in
\* getPool, and no pool that passed its connection test is left open.
C34_DrainAfterHandlers ==
  proc \in {"drained", "exit0"} => (poolCalls = <<>> /\ LivePools = {})

\* ---- claims about the processing queue

\* C39: at most one processSyncData operation per SyncId is suspended at any
\* time; the queue holds exactly the SyncIds of the suspended calls, so it is
\* empty when none is; and a call with a valid payload returns 'Sync already
\* in progress', having left the target store alone, exactly when a call with
\* its SyncId was suspended.
C39_QueueTracksCalls ==
  /\ \A i \in 1..Len(syncCalls), j \in 1..Len(syncCalls) :
       syncCalls[i].SyncId = syncCalls[j].SyncId => i = j
  /\ processingQueue = { syncCalls[i].SyncId : i \in 1..Len(syncCalls) }
  /\ (syncRet # NoRet /\ syncRet.outcome # "invalid") =>
       /\ syncRet.outcome = "busy" <=> syncRet.dup
       /\ syncRet.outcome = "busy" => ~syncRet.touched

\* A request was turned away as already in progress while two calls with
\* different SyncIds were suspended.
C39_Witness ==
  /\ syncRet # NoRet
  /\ syncRet.outcome = "busy"
  /\ Len(syncCalls) = 2
  /\ processingQueue = SyncIds

\* ---- claims about table maintenance

\* The last event a finished maintenance handler emitted reports success.
RepliedSuccess == job.emits # <<>> /\ job.emits[Len(job.emits)].success

\* C32: when clear_database_tables has finished, a listed table whose drop
\* failed means that the response reports failure, and a response that
\* reports success means that no listed table exists any more.
C32_ClearAllOrFail ==
  (job # NoRet /\ job.op = "clear" /\ job.pc = "done") =>
    /\ job.failed # {} => ~RepliedSuccess
    /\ RepliedSuccess => dbTables \cap Range(tablesToClear) = {}

\* C38: when clear_database_tables has finished with a connection acquired,
\* the connection was released exactly once and went back to the pool with
\* foreign key checks enabled.
C38_ForeignKeysRestored ==
  (job # NoRet /\ job.op = "clear" /\ job.pc = "done" /\ job.conn) =>
    /\ job.released = 1
    /\ job.fk

\* C35: a force_sync_request with action drop_all_tables from an identified
\* session whose database resolves ends with force_sync_response success
\* true and with neither SalesDetail nor StockItems left in the database.
C35_ForceDropsBoth ==
  (/\ job # NoRet /\ job.op = "force" /\ job.pc = "done"
   /\ job.action = "drop_all_tables" /\ job.identified /\ job.database # Null) =>
    /\ job.emits = <<UpEmit("force_sync_response", TRUE)>>
    /\ dbTables \cap Range(tablesToDrop) = {}

\* ---- claims about event payloads

\* C33: no event a peer sends ends the server process: while sessions
\* connect, disconnect and send upload events, with a payload or without one,
\* the process keeps running.
C33_PeerCannotStopServer == proc = "running"

====
